---------------------------- MODULE Spec2Model ----------------------------
(***************************************************************************)
(* State-machine model of the solarpredictor request-serving core:         *)
(*   - the training endpoint and the model promotion of ModelTrainer       *)
(*     (backend/api/views.py TrainingViewSet, backend/ml_models/trainer.py)*)
(*   - the forecast proxy with its TTL cache (backend/api/views.py)        *)
(*   - the Nominatim rate limiter and the geocode search proxy             *)
(*   - the forecast payload builder (_build_forecast_payload)              *)
(*   - the weather and production uploads                                  *)
(*     (backend/api/views.py, backend/data_processing/file_handler.py)     *)
(*                                                                         *)
(* Every database call (supabase ... .execute()) and every HTTP call is    *)
(* one atomic step; the steps of concurrent requests interleave freely.    *)
(***************************************************************************)
EXTENDS Integers, Sequences, FiniteSets, TLC

(***************************************************************************)
(* Bounds of the model.                                                    *)
(***************************************************************************)
\* POST /training requests started in one behaviour
MaxTrainRequests == 3

\* GET /forecast/solar requests started in one behaviour
MaxForecastRequests == 2

\* GET /geocode/search requests started in one behaviour
MaxSearchRequests == 3

\* the clock runs from 0 to MaxTime ticks
MaxTime == 4
\* the clock of the geocoding-only runs: room for three spaced acquires
MaxRateTime == 6
\* the longest forecasts list a provider response holds
MaxEntries == 50
\* the most data rows an uploaded file has
MaxRows == 2

\* latitudes up to CoordSpan * 0.00002 degrees are requested
CoordSpan == 3

\* the most predictions a request asks for
MaxCount == 2

\* GET /forecast/solar requests started in a run that follows the locks
MaxLockRequests == 3

\* worker threads serving POST /training (one thread per inbound request)
TrainWorkers == {"w1", "w2"}

\* worker threads serving the forecast and geocode endpoints
Threads == {"t1", "t2"}

\* the forecast endpoint is modelled serving one request at a time
ForecastThreads == {"t1"}

ThreadOrder == [t \in Threads |-> IF t = "t1" THEN 1 ELSE 2]

\* model_type is any string of the request body; 'regression' is the default
ModelTypes == {"regression", "other"}

(***************************************************************************)
(* Program constants and configuration.                                    *)
(***************************************************************************)
\* round(value, 4)
NDIGITS == 4

\* NOMINATIM_RATE_LIMIT_SECONDS, in clock ticks
NOMINATIM_RATE_LIMIT_SECONDS == 2

\* forecasts[:48] in _build_forecast_payload
HOURLY_ENTRIES == 48

\* _summarize_daily_energy(forecasts, days=7)
SUMMARY_DAYS == 7

\* SOLCAST_MAX_HOURS, default of the setting
SOLCAST_MAX_HOURS == 336

\* the values of settings.SOLCAST_CACHE_TTL_SECONDS the model is run with, in
\* clock ticks: 0 switches the cache off
TTLValues == {0, 2}

\* Coordinates are floats; the model counts them in units of 0.00002 degree, a
\* fifth of the rounding step 10^-4, so that no input lies on a rounding tie.
\* A float is [neg, mag]: its sign bit and its magnitude (Python keeps -0.0
\* and 0.0 apart when it prints them).
UnitsPerDegree == 5 * (10 ^ NDIGITS)

RoundStep == UnitsPerDegree \div (10 ^ NDIGITS)

Float(neg, mag) == [neg |-> neg, mag |-> mag]

Value(x) == IF x.neg THEN 0 - x.mag ELSE x.mag

\* the lat query parameters of the model: -0.00002, 0 .. CoordSpan * 0.00002
\* and 90.00002 (out of range)
LatInputs ==
    {Float(TRUE, 1)} \cup {Float(FALSE, m) : m \in 0..CoordSpan}
        \cup {Float(FALSE, 90 * UnitsPerDegree + 1)}

\* the lon query parameters of the model: 0, 0.00002 and 180.00002 (out of range)
LonInputs ==
    {Float(FALSE, 0), Float(FALSE, 1), Float(FALSE, 180 * UnitsPerDegree + 1)}

\* coordinates at and just beyond the ends of the valid ranges: +-90 and
\* +-90.00002, +-180 and +-180.00002, and one inside
EdgeLatInputs ==
    {Float(n, 90 * UnitsPerDegree + d) : n \in BOOLEAN, d \in {0, 1}} \cup {Float(FALSE, 1)}

EdgeLonInputs ==
    {Float(n, 180 * UnitsPerDegree + d) : n \in BOOLEAN, d \in {0, 1}} \cup {Float(FALSE, 1)}

\* the coordinates of concurrent requests: 0.00002 and 0.00004 under one cache
\* key, 0.00006 under the next
RaceLatInputs == {Float(FALSE, 1), Float(FALSE, 2), Float(FALSE, 3)}

RaceLonInputs == {Float(FALSE, 1)}

\* the forecast arrays the provider answers with
Bodies == {"f1"}

\* what the call to the forecast provider comes to:
\*   "ok"            200, a JSON object with a non-empty forecasts array
\*   "empty"         200, a JSON object without forecasts or with an empty array
\*   "not_object"    200, JSON that is not an object (an array, null)
\*   "not_json"      200, a body that is not JSON
\*   "http_error"    a 4xx/5xx status
\*   "other_status"  a status below 400 other than 2xx, answered as it is (a 304,
\*                   a 3xx without Location), with a body as in "ok"
\*   "network"       requests.get raises (connection error, timeout)
FetchOutcomes ==
    {"ok", "empty", "not_object", "not_json", "http_error", "other_status", "network"}

\* q parameters of a geocode search, as sequences of characters: missing or
\* empty, "ab", " ab", "abc", "   ", "a c"
Queries ==
    {<<>>, <<"a", "b">>, <<" ", "a", "b">>, <<"a", "b", "c">>,
     <<" ", " ", " ">>, <<"a", " ", "c">>}

VARIABLES
    model_versions,   \* table model_versions: rows in insertion order
    training_jobs,    \* table training_jobs: rows in insertion order
    trainer,          \* per worker: position in TrainingViewSet.create
    train_started,    \* number of POST /training requests started
    now,              \* the clock: time.time() and time.monotonic(), in ticks
    SOLCAST_CACHE_TTL,      \* settings.SOLCAST_CACHE_TTL_SECONDS
    env_api_key,            \* os.getenv('SOLCAST_API_KEY') is non-empty
    solcast_configured,     \* SOLCAST_BASE_URL and SOLCAST_API_KEY are non-empty
    nominatim_configured,   \* NOMINATIM_BASE_URL is non-empty
    solcast_cache,    \* _solcast_cache: dict cache_key -> {data, expires_at}
    heap,             \* the payload dicts alive: object id -> contents
    nominatim_lock,   \* _nominatim_lock: "free" or the thread holding it
    nominatim_last_call,    \* _nominatim_last_call
    req,              \* per thread: position and locals of the request it serves
    forecast_started, \* number of forecast requests started
    search_started,   \* number of geocode searches started
    acquires,         \* history: rate-limiter acquisitions that have returned
    http_calls,       \* history: HTTP calls to the geocoding provider started
    last_store,       \* history: per cache key, the last _store_forecast_in_cache call
    provider_forecasts,     \* the forecasts list of a provider response
    built,            \* what _build_forecast_payload has made of it
    weather_data,     \* table weather_data: rows in insertion order
    production_data,  \* table production_data: rows in insertion order
    upload,           \* the upload request served
    predictions,      \* table predictions: the stored prediction rows
    predict,          \* the GET /predictions/... request served
    login,            \* the POST /auth/login request served
    solcast_cache_lock      \* _solcast_cache_lock: "free" or the thread holding it

trainVars == <<model_versions, training_jobs, trainer, train_started>>

configVars == <<SOLCAST_CACHE_TTL, env_api_key, solcast_configured, nominatim_configured>>

limiterVars == <<nominatim_lock, nominatim_last_call, acquires, http_calls>>

webVars == <<now, configVars, solcast_cache, heap, limiterVars, req,
             forecast_started, search_started, last_store>>

payloadVars == <<provider_forecasts, built>>

ingestVars == <<weather_data, production_data, upload>>

serveVars == <<predictions, predict, login>>

batchVars == <<payloadVars, ingestVars, serveVars, solcast_cache_lock>>

vars == <<trainVars, webVars, batchVars>>

(***************************************************************************)
(* Training: TrainingViewSet.create and ModelTrainer.train_model           *)
(***************************************************************************)
\* samples: <<len(X_train), len(X_test)>> of the call; error: what raised
\* ("split": train_test_split, "io": anything else); keys: the keys of the
\* response body; deactivated: the rows the call has switched to inactive
IdleTrainer ==
    [pc |-> "idle", model_type |-> "regression", job |-> 0, status |-> 0,
     samples |-> <<0, 0>>, error |-> "", keys |-> {}, deactivated |-> {}]

\* Response({'error': str(e)}, status=500) of views.py 786-790
TrainingError(tr, error) ==
    [tr EXCEPT !.pc = "responded", !.status = 500, !.error = error, !.keys = {"error"}]

\* n_samples of the synthetic data
SYNTHETIC_SAMPLES == 1000

\* test_size=0.2, in percent
TEST_SIZE == 20

\* timestamps of the stored rows and their hour: Series.dt.floor('H')
FloorHour ==
    [ts \in {"2023-12-31T00:00:00", "2023-12-31T10:00:00", "2023-12-31T10:30:00",
             "2023-12-31T11:00:00", "2024-01-01T10:00:00"} |->
        IF ts = "2023-12-31T00:00:00" THEN "2023-12-31T00"
        ELSE IF ts \in {"2023-12-31T10:00:00", "2023-12-31T10:30:00"} THEN "2023-12-31T10"
        ELSE IF ts = "2023-12-31T11:00:00" THEN "2023-12-31T11"
        ELSE "2024-01-01T10"]

\* pd.merge(weather_df, production_df, on='timestamp_hour', how='inner'): the
\* pairs of a weather row and a production row of the same hour
Merged(weather, production) ==
    {<<i, j>> \in (1..Len(weather)) \X (1..Len(production)) :
        FloorHour[weather[i]["timestamp"]] = FloorHour[production[j]["timestamp"]]}

\* trainer.py 25-80: len(X) of _fetch_training_data, 0 - 1 for (None, None)
FetchTrainingData(weather, production) ==
    IF weather = <<>> \/ production = <<>> THEN 0 - 1
    ELSE IF Merged(weather, production) = {} THEN 0 - 1
    ELSE Cardinality(Merged(weather, production))

\* variant: without data the training goes on with what it has
TrainingSamples_NoSynthesis(weather, production) ==
    LET n == FetchTrainingData(weather, production) IN IF n < 0 THEN 0 ELSE n

\* trainer.py 88-95: the number of samples the model is trained and tested on
TrainingSamples(weather, production) ==
    LET n == FetchTrainingData(weather, production) IN
    IF n < 0 \/ n = 0 THEN SYNTHETIC_SAMPLES ELSE n

\* train_test_split(X, y, test_size=0.2): n_test = ceil(0.2 * n), the rest is
\* the training set; an empty training set raises ValueError
TrainTestSplit(n) ==
    LET n_test == (n * TEST_SIZE + 99) \div 100
    IN [ok |-> n - n_test > 0, train |-> n - n_test, test |-> n_test]

\* supabase.table('model_versions').update({'is_active': False})
\*         .eq('model_type', model_type)
DeactivateOldModels(rows, mt) ==
    [i \in 1..Len(rows) |->
        IF rows[i].model_type = mt
        THEN [rows[i] EXCEPT !.is_active = FALSE]
        ELSE rows[i]]

\* the row of supabase.table('model_versions').insert({... 'is_active': True})
NewModelVersion(mt, job) ==
    [model_type |-> mt, is_active |-> TRUE, job |-> job]

\* the rows of model_type mt with is_active = true (indices into the table)
ActiveRows(rows, mt) ==
    {i \in 1..Len(rows) : rows[i].model_type = mt /\ rows[i].is_active}

\* views.py 759-768: read model_type, insert the job row with status pending.
\* ok = FALSE: create_client or the insert raises; the except clause answers 500.
TrainingCreate(w, mt, ok) ==
    /\ trainer[w].pc = "idle"
    /\ train_started < MaxTrainRequests
    /\ train_started' = train_started + 1
    /\ IF ok
       THEN /\ training_jobs' = Append(training_jobs,
                                   [status |-> "pending", model_type |-> mt])
            /\ trainer' = [trainer EXCEPT ![w] =
                   [IdleTrainer EXCEPT !.pc = "fit", !.model_type = mt,
                                       !.job = Len(training_jobs) + 1]]
       ELSE /\ training_jobs' = training_jobs
            /\ trainer' = [trainer EXCEPT ![w] =
                   TrainingError([IdleTrainer EXCEPT !.model_type = mt], "io")]
    /\ UNCHANGED model_versions
    /\ UNCHANGED <<webVars, batchVars>>

\* trainer.py 86-126: fetch the data (or synthesize it), split, fit, evaluate,
\* pickle the model. ok = FALSE: a step other than the split raises (the
\* directory, the fit, the dump); trainer.py 156-158 re-raises and views.py
\* 786-790 answers 500 without touching the job row.
TrainFit(w, ok) ==
    /\ trainer[w].pc = "fit"
    /\ LET split == TrainTestSplit(TrainingSamples(weather_data, production_data)) IN
       trainer' = [trainer EXCEPT ![w] =
           IF ~split.ok THEN TrainingError(@, "split")
           ELSE IF ~ok THEN TrainingError(@, "io")
           ELSE [@ EXCEPT !.pc = "deactivate", !.samples = <<split.train, split.test>>]]
    /\ UNCHANGED <<model_versions, training_jobs, train_started>>
    /\ UNCHANGED <<webVars, batchVars>>

\* trainer.py 129-132: deactivate the old models of this model_type.
TrainDeactivate(w, ok) ==
    /\ trainer[w].pc = "deactivate"
    /\ IF ok
       THEN /\ model_versions' = DeactivateOldModels(model_versions, trainer[w].model_type)
            /\ trainer' = [trainer EXCEPT
                   ![w].pc = "insert",
                   ![w].deactivated = ActiveRows(model_versions, trainer[w].model_type)]
       ELSE /\ model_versions' = model_versions
            /\ trainer' = [trainer EXCEPT ![w] = TrainingError(@, "io")]
    /\ UNCHANGED <<training_jobs, train_started>>
    /\ UNCHANGED <<webVars, batchVars>>

\* trainer.py 134-154: insert the new version with is_active = true and return
\* the result dict.
TrainInsert(w, ok) ==
    /\ trainer[w].pc = "insert"
    /\ IF ok
       THEN /\ model_versions' = Append(model_versions,
                                    NewModelVersion(trainer[w].model_type, trainer[w].job))
            /\ trainer' = [trainer EXCEPT ![w].pc = "update_job"]
       ELSE /\ model_versions' = model_versions
            /\ trainer' = [trainer EXCEPT ![w] = TrainingError(@, "io")]
    /\ UNCHANGED <<training_jobs, train_started>>
    /\ UNCHANGED <<webVars, batchVars>>

\* views.py 774-785: mark the job completed and answer 200.
\* ok = FALSE: the update raises; views.py 786-790 answers 500.
TrainingUpdateJob(w, ok) ==
    /\ trainer[w].pc = "update_job"
    /\ IF ok
       THEN /\ training_jobs' = [training_jobs EXCEPT ![trainer[w].job].status = "completed"]
            /\ trainer' = [trainer EXCEPT ![w].pc = "responded", ![w].status = 200,
                                          ![w].keys = {"message", "job_id", "results"}]
       ELSE /\ training_jobs' = training_jobs
            /\ trainer' = [trainer EXCEPT ![w] = TrainingError(@, "io")]
    /\ UNCHANGED <<model_versions, train_started>>
    /\ UNCHANGED <<webVars, batchVars>>

\* the response has been sent; the worker thread serves the next request
TrainingReturn(w) ==
    /\ trainer[w].pc = "responded"
    /\ trainer' = [trainer EXCEPT ![w] = IdleTrainer]
    /\ UNCHANGED <<model_versions, training_jobs, train_started>>
    /\ UNCHANGED <<webVars, batchVars>>

(***************************************************************************)
(* The forecast cache: _round_coord, _solcast_cache_key,                   *)
(* _get_cached_forecast, _store_forecast_in_cache                          *)
(***************************************************************************)
\* round(value, 4): to the nearest multiple of 10^-4, the sign kept; the result
\* is counted in units of 10^-4 degree
RoundCoord(value) ==
    Float(value.neg, (2 * value.mag + RoundStep) \div (2 * RoundStep))

\* variant: the key keeps the coordinates as given
SolcastCacheKey_Unrounded(lat, lon) == <<lat, lon>>

\* f"{_round_coord(lat)}:{_round_coord(lon)}": the two rounded floats as
\* printed, so -0.0 and 0.0 give different keys
SolcastCacheKey(lat, lon) == <<RoundCoord(lat), RoundCoord(lon)>>

\* Python's None where a cache entry is expected
None == [data |-> 0, expires_at |-> 0 - 1]

\* dict.pop(key, None)
DictPop(d, key) == [k \in DOMAIN d \ {key} |-> d[k]]

\* d[key] = value
DictSet(d, key, value) ==
    [k \in DOMAIN d \cup {key} |-> IF k = key THEN value ELSE d[k]]

\* variant: an entry is still served at the instant it expires
GetCachedForecast_ServesExpired(cache, lat, lon, t, ttl) ==
    LET cache_key == SolcastCacheKey(lat, lon) IN
    IF ttl = 0 THEN [result |-> None, cache |-> cache]
    ELSE IF cache_key \in DOMAIN cache /\ cache[cache_key].expires_at >= t
    THEN [result |-> cache[cache_key], cache |-> cache]
    ELSE IF cache_key \in DOMAIN cache
    THEN [result |-> None, cache |-> DictPop(cache, cache_key)]
    ELSE [result |-> None, cache |-> cache]

\* _get_cached_forecast(lat, lon) called at time t: what it returns and the dict
\* it leaves
GetCachedForecast(cache, lat, lon, t, ttl) ==
    LET cache_key == SolcastCacheKey(lat, lon) IN
    IF ttl = 0
    THEN [result |-> None, cache |-> cache]
    ELSE IF cache_key \in DOMAIN cache /\ cache[cache_key].expires_at > t
    THEN [result |-> cache[cache_key], cache |-> cache]
    ELSE IF cache_key \in DOMAIN cache
    THEN [result |-> None, cache |-> DictPop(cache, cache_key)]
    ELSE [result |-> None, cache |-> cache]

\* variant: a store keeps the entry the key already has
StoreForecastInCache_KeepsExisting(cache, lat, lon, data, t, ttl) ==
    IF ttl = 0 \/ SolcastCacheKey(lat, lon) \in DOMAIN cache THEN cache
    ELSE DictSet(cache, SolcastCacheKey(lat, lon), [data |-> data, expires_at |-> t + ttl])

\* variant: a store does not look at the TTL
StoreForecastInCache_IgnoresTtl(cache, lat, lon, data, t, ttl) ==
    DictSet(cache, SolcastCacheKey(lat, lon), [data |-> data, expires_at |-> t + ttl])

\* _store_forecast_in_cache(lat, lon, data) called at time t: the dict it leaves
StoreForecastInCache(cache, lat, lon, data, t, ttl) ==
    IF ttl = 0
    THEN cache
    ELSE DictSet(cache, SolcastCacheKey(lat, lon),
                 [data |-> data, expires_at |-> t + ttl])

(***************************************************************************)
(* Payload objects. A payload dict is an object of the heap; two names may *)
(* refer to one object. An object lives as long as the cache or a request  *)
(* refers to it.                                                           *)
(***************************************************************************)
\* the id a newly created object gets
Alloc(h) ==
    CHOOSE i \in 1..(Cardinality(DOMAIN h) + 1) :
        /\ i \notin DOMAIN h
        /\ \A j \in 1..(i - 1) : j \in DOMAIN h

\* variant: the copy is the object itself
DeepCopy_Alias(h, obj) == obj

\* copy.deepcopy(obj): the id of the copy; the copy has the contents of obj
DeepCopy(h, obj) == Alloc(h)

\* the objects the cache and the requests refer to: the entries' data, the
\* payloads, and the data of the entry a request's lookup has returned
Live(cache, rq) ==
    ({cache[k].data : k \in DOMAIN cache} \cup {rq[t].payload : t \in Threads}
        \cup {rq[t].cached.data : t \in Threads}) \ {0}

\* the heap without the objects nothing refers to any more
Collect(h, cache, rq) == [o \in DOMAIN h \cap Live(cache, rq) |-> h[o]]

(***************************************************************************)
(* Requests                                                                *)
(***************************************************************************)
NoCoord == Float(FALSE, 0)

IdleReq ==
    [pc |-> "idle", kind |-> "none", lat |-> NoCoord, lon |-> NoCoord,
     cached |-> None, forecasts |-> "", located |-> "", payload |-> 0,
     status |-> 0, source |-> "", trace |-> <<>>, wake_at |-> 0, query |-> <<>>,
     upstream |-> "", evicted |-> FALSE]

\* a response without payload: Response({...error...}, status=code)
Respond(rq, code) == [rq EXCEPT !.pc = "responded", !.status = code]

\* variant: the ends of the latitude range are rejected
LatInRange_Open(lat) == lat.mag < 90 * UnitsPerDegree

\* -90 <= lat <= 90
LatInRange(lat) == lat.mag <= 90 * UnitsPerDegree

\* -180 <= lon <= 180
LonInRange(lon) == lon.mag <= 180 * UnitsPerDegree

\* views.py 297-364: the parameters are read, parsed and range-checked, then
\* the API key of the environment is checked: the error response, or "pass".
\* form: "ok" (both parse as floats), "missing", "unparseable".
ForecastPreflight(form, lat, lon) ==
    IF form # "ok" THEN 400
    ELSE IF ~LatInRange(lat) THEN 400
    ELSE IF ~LonInRange(lon) THEN 400
    ELSE IF ~env_api_key THEN 500
    ELSE 0

\* views.py 366-376: a hit; a deep copy of the entry's data, annotated
\* {source: cache, expires_at}, is the response
CacheHitPayload(h, cached) ==
    [h[cached.data] EXCEPT !.cache_source = "cache",
                           !.cache_expires_at = cached.expires_at]

\* the request thread t is given: a thread takes a request only when the
\* threads before it are busy
Dispatch(t) ==
    /\ req[t].pc = "idle"
    /\ \A u \in Threads : ThreadOrder[u] < ThreadOrder[t] => req[u].pc # "idle"

\* views.py 297-379: SolarForecastProxy.get up to the fetch: validation, the
\* API key check, then the cache lookup; on a hit the response is sent.
ForecastGet(t, form, lat, lon) ==
    /\ Dispatch(t)
    /\ forecast_started < MaxForecastRequests
    /\ forecast_started' = forecast_started + 1
    /\ form # "ok" => lat = NoCoord /\ lon = NoCoord
    /\ form = "ok" => /\ lat \in LatInputs \cup EdgeLatInputs
                      /\ lon \in LonInputs \cup EdgeLonInputs
    /\ LET r0 == [IdleReq EXCEPT !.kind = "forecast", !.lat = lat, !.lon = lon]
           code == ForecastPreflight(form, lat, lon)
           got == GetCachedForecast(solcast_cache, lat, lon, now, SOLCAST_CACHE_TTL)
           cached == got.result
           payload == DeepCopy(heap, cached.data)
       IN IF code # 0
          THEN /\ req' = [req EXCEPT ![t] =
                      Respond([r0 EXCEPT !.trace =
                                  IF code = 500 THEN <<"config">> ELSE <<>>], code)]
               /\ UNCHANGED <<solcast_cache, heap>>
          ELSE /\ solcast_cache' = got.cache
               /\ IF cached # None
                  THEN /\ req' = [req EXCEPT ![t] =
                              [r0 EXCEPT !.pc = "responded", !.status = 200,
                                         !.source = "cache", !.cached = cached,
                                         !.payload = payload,
                                         !.trace = <<"config", "cache">>]]
                       /\ heap' = Collect(
                              [o \in DOMAIN heap \cup {payload} |->
                                  IF o = payload THEN CacheHitPayload(heap, cached)
                                  ELSE heap[o]],
                              solcast_cache', req')
                  ELSE /\ req' = [req EXCEPT ![t] =
                              [r0 EXCEPT !.pc = "fetch",
                                         !.evicted = got.cache # solcast_cache,
                                         !.trace = <<"config", "cache">>]]
                       /\ heap' = Collect(heap, solcast_cache', req')
    /\ UNCHANGED <<now, configVars, limiterVars, search_started, last_store>>
    /\ UNCHANGED <<trainVars, batchVars>>

\* the status of the provider's response
HttpStatusOf(outcome) ==
    IF outcome = "http_error" THEN 503
    ELSE IF outcome = "other_status" THEN 304
    ELSE 200

\* Response.raise_for_status() raises HTTPError
RaisesForStatus(code) == 400 <= code /\ code < 600

\* bool(response): Response.__bool__ is Response.ok, false when
\* raise_for_status() raises
ResponseBool(code) == ~RaisesForStatus(code)

\* variant: a response without forecasts is passed on
FetchFailure_AcceptsEmpty(outcome) ==
    LET code == HttpStatusOf(outcome) IN
    IF outcome = "network" THEN 502
    ELSE IF RaisesForStatus(code) THEN (IF ResponseBool(code) THEN code ELSE 502)
    ELSE IF outcome = "not_json" THEN 502
    ELSE IF outcome = "not_object" THEN 500
    ELSE 0

\* views.py 189-212 and the except clauses 402-459: the status of the error
\* response the outcome leads to, or 0 when the forecasts are returned.
\*   requests.get raises RequestException                       502
\*   raise_for_status raises HTTPError: exc.response.status_code
\*     if exc.response else 502
\*   response.json() raises (a RequestException or a ValueError) 502
\*   data.get raises AttributeError: except Exception            500
\*   no forecasts: ValueError                                    502
FetchFailure(outcome) ==
    LET code == HttpStatusOf(outcome) IN
    IF outcome = "network" THEN 502
    ELSE IF RaisesForStatus(code) THEN (IF ResponseBool(code) THEN code ELSE 502)
    ELSE IF outcome = "not_json" THEN 502
    ELSE IF outcome = "not_object" THEN 500
    ELSE IF outcome = "empty" THEN 502
    ELSE 0

\* views.py 381-383 with _fetch_solcast_forecast (189-212) and the except
\* clauses 402-459; body is the forecasts array returned, if one is.
ForecastFetch(t, outcome, body) ==
    /\ req[t].pc = "fetch"
    /\ outcome \in FetchOutcomes
    /\ FetchFailure(outcome) # 0 => body = ""
    /\ FetchFailure(outcome) = 0 => body # ""
    /\ req' = [req EXCEPT ![t] =
           IF ~solcast_configured
           THEN Respond([@ EXCEPT !.trace = Append(@, "config")], 500)
           ELSE IF FetchFailure(outcome) = 0
           THEN [@ EXCEPT !.pc = "nominatim", !.forecasts = body, !.upstream = outcome,
                          !.trace = @ \o <<"config", "provider">>]
           ELSE Respond([@ EXCEPT !.upstream = outcome,
                                  !.trace = @ \o <<"config", "provider">>],
                        FetchFailure(outcome))]
    /\ UNCHANGED <<now, configVars, solcast_cache, heap, limiterVars,
                   forecast_started, search_started, last_store>>
    /\ UNCHANGED <<trainVars, batchVars>>

(***************************************************************************)
(* The geocoding provider: _enforce_nominatim_rate_limit, _call_nominatim, *)
(* _reverse_geocode, _search_locations                                     *)
(***************************************************************************)
\* variant: a failure of the geocoding call fails the request
AfterNominatim_Propagates(rq, ok) ==
    IF ~ok THEN Respond(rq, 500)
    ELSE IF rq.kind = "forecast"
    THEN [rq EXCEPT !.pc = "store", !.located = "place"]
    ELSE Respond([rq EXCEPT !.located = "results"], 200)

\* _reverse_geocode / _search_locations after _call_nominatim has returned
\* (ok) or raised: reverse gives the place, or in its except clause the
\* metadata with display_name, city and country None ("nulls"); search gives
\* the results, or in its except clause []. The forecast goes on building its
\* payload, the search answers 200.
AfterNominatim(rq, ok) ==
    IF rq.kind = "forecast"
    THEN [rq EXCEPT !.pc = "store", !.located = IF ok THEN "place" ELSE "nulls"]
    ELSE Respond([rq EXCEPT !.located = IF ok THEN "results" ELSE "[]"], 200)

\* variant: the limiter never sleeps
WaitTime_NoSleep(t, last_call) == 0

\* wait_time of _enforce_nominatim_rate_limit, read at time t
WaitTime(t, last_call) == NOMINATIM_RATE_LIMIT_SECONDS - (t - last_call)

\* variant: the HTTP call is made without the rate limiter
CallNominatim_Unlimited(t) ==
    /\ req[t].pc = "nominatim"
    /\ req' = [req EXCEPT ![t] =
           IF ~nominatim_configured
           THEN AfterNominatim([@ EXCEPT !.trace = Append(@, "raise")], FALSE)
           ELSE [@ EXCEPT !.pc = "nominatim_http"]]
    /\ UNCHANGED <<now, configVars, solcast_cache, heap, limiterVars,
                   forecast_started, search_started, last_store>>
    /\ UNCHANGED <<trainVars, batchVars>>

\* views.py 87-91 and 79-83: _call_nominatim raises if the base URL is unset;
\* else _enforce_nominatim_rate_limit takes the lock, reads the clock and
\* starts to sleep for wait_time if that is positive.
CallNominatim(t) ==
    /\ req[t].pc = "nominatim"
    /\ IF ~nominatim_configured
       THEN /\ req' = [req EXCEPT ![t] =
                       AfterNominatim([@ EXCEPT !.trace = Append(@, "raise")], FALSE)]
            /\ UNCHANGED nominatim_lock
       ELSE /\ nominatim_lock = "free"
            /\ nominatim_lock' = t
            /\ LET wait_time == WaitTime(now, nominatim_last_call) IN
               req' = [req EXCEPT ![t] =
                   [@ EXCEPT !.pc = "rate_limit",
                             !.wake_at = IF wait_time > 0 THEN now + wait_time ELSE now]]
    /\ UNCHANGED <<now, configVars, solcast_cache, heap, nominatim_last_call, acquires,
                   http_calls, forecast_started, search_started, last_store>>
    /\ UNCHANGED <<trainVars, batchVars>>

\* variant: the limiter hands its lock on to the HTTP call
RateLimitRecord_KeepsLock(t) ==
    /\ req[t].pc = "rate_limit"
    /\ now >= req[t].wake_at
    /\ nominatim_last_call' = now
    /\ acquires' = [n |-> acquires.n + 1,
                    first |-> IF acquires.n = 0 THEN now ELSE acquires.first,
                    prev |-> acquires.last,
                    last |-> now]
    /\ req' = [req EXCEPT ![t] = [@ EXCEPT !.pc = "nominatim_http", !.wake_at = 0,
                                            !.trace = Append(@, "acquire")]]
    /\ UNCHANGED <<now, configVars, solcast_cache, heap, http_calls, nominatim_lock,
                   forecast_started, search_started, last_store>>
    /\ UNCHANGED <<trainVars, batchVars>>

\* views.py 83-84: time.sleep(wait_time) is over (it sleeps at least wait_time),
\* the call time is recorded, the lock released and the function returns.
RateLimitRecord(t) ==
    /\ req[t].pc = "rate_limit"
    /\ now >= req[t].wake_at
    /\ nominatim_last_call' = now
    /\ nominatim_lock' = "free"
    /\ acquires' = [n |-> acquires.n + 1,
                    first |-> IF acquires.n = 0 THEN now ELSE acquires.first,
                    prev |-> acquires.last,
                    last |-> now]
    /\ req' = [req EXCEPT ![t] = [@ EXCEPT !.pc = "nominatim_http", !.wake_at = 0,
                                            !.trace = Append(@, "acquire")]]
    /\ UNCHANGED <<now, configVars, solcast_cache, heap, http_calls,
                   forecast_started, search_started, last_store>>
    /\ UNCHANGED <<trainVars, batchVars>>

\* views.py 92-105: the HTTP call to the geocoding provider; ok = FALSE: the
\* call, raise_for_status or the decoding raises.
NominatimHttp(t, ok) ==
    /\ req[t].pc = "nominatim_http"
    /\ req' = [req EXCEPT ![t] =
           AfterNominatim([@ EXCEPT !.trace =
                              @ \o (IF ok THEN <<"http">> ELSE <<"http", "raise">>)], ok)]
    /\ http_calls' = [n |-> http_calls.n + 1, last |-> now]
    /\ UNCHANGED <<now, configVars, solcast_cache, heap, nominatim_lock,
                   nominatim_last_call, acquires,
                   forecast_started, search_started, last_store>>
    /\ UNCHANGED <<trainVars, batchVars>>

\* str.lstrip(), str.rstrip(), str.strip() for the whitespace " "
RECURSIVE LStrip(_)
LStrip(s) == IF s # <<>> /\ Head(s) = " " THEN LStrip(Tail(s)) ELSE s

RECURSIVE RStrip(_)
RStrip(s) ==
    IF s # <<>> /\ s[Len(s)] = " " THEN RStrip(SubSeq(s, 1, Len(s) - 1)) ELSE s

Strip(s) == RStrip(LStrip(s))

\* variant: a query of two characters is long enough
GeocodeSearch_TwoCharacters(t, q) ==
    /\ Dispatch(t)
    /\ search_started < MaxSearchRequests
    /\ search_started' = search_started + 1
    /\ LET query == Strip(q)
           r0 == [IdleReq EXCEPT !.kind = "search", !.query = q]
       IN req' = [req EXCEPT ![t] =
              IF query = <<>> \/ Len(query) < 2
              THEN Respond(r0, 400)
              ELSE [r0 EXCEPT !.pc = "nominatim"]]
    /\ UNCHANGED <<now, configVars, solcast_cache, heap, limiterVars, forecast_started, last_store>>
    /\ UNCHANGED <<trainVars, batchVars>>

\* views.py 468-482: GeocodeSearchProxy.get; q is the q parameter ('' when
\* it is missing).
GeocodeSearch(t, q) ==
    /\ Dispatch(t)
    /\ search_started < MaxSearchRequests
    /\ search_started' = search_started + 1
    /\ LET query == Strip(q)
           r0 == [IdleReq EXCEPT !.kind = "search", !.query = q]
       IN req' = [req EXCEPT ![t] =
              IF query = <<>> \/ Len(query) < 3
              THEN Respond(r0, 400)
              ELSE [r0 EXCEPT !.pc = "nominatim"]]
    /\ UNCHANGED <<now, configVars, solcast_cache, heap, limiterVars, forecast_started, last_store>>
    /\ UNCHANGED <<trainVars, batchVars>>

(***************************************************************************)
(* The forecast, continued                                                 *)
(***************************************************************************)
\* the dict _build_forecast_payload returns, with the cache annotation of
\* views.py 388-391
OriginPayload(rq, t, ttl) ==
    [data |-> [lat |-> rq.lat, lon |-> rq.lon, forecasts |-> rq.forecasts,
               located |-> rq.located],
     cache_source |-> "origin",
     cache_expires_at |-> t + ttl,
     mutated |-> FALSE]

\* views.py 387-400 (and 217-248): the payload is built and annotated, a deep
\* copy of it is stored in the cache, the payload is returned.
ForecastStore(t) ==
    /\ req[t].pc = "store"
    /\ LET payload == Alloc(heap)
           heap1 == [o \in DOMAIN heap \cup {payload} |->
                        IF o = payload
                        THEN OriginPayload(req[t], now, SOLCAST_CACHE_TTL)
                        ELSE heap[o]]
           copy == DeepCopy(heap1, payload)
           heap2 == [o \in DOMAIN heap1 \cup {copy} |->
                        IF o = copy THEN heap1[payload] ELSE heap1[o]]
       IN /\ solcast_cache' = StoreForecastInCache(solcast_cache, req[t].lat, req[t].lon,
                                                   copy, now, SOLCAST_CACHE_TTL)
          /\ req' = [req EXCEPT ![t] =
                 [@ EXCEPT !.pc = "responded", !.status = 200, !.source = "origin",
                           !.payload = payload]]
          /\ heap' = Collect(heap2, solcast_cache', req')
          /\ last_store' = DictSet(last_store, SolcastCacheKey(req[t].lat, req[t].lon),
                                   [at |-> now, payload |-> heap1[payload]])
    /\ UNCHANGED <<now, configVars, limiterVars, forecast_started, search_started>>
    /\ UNCHANGED <<trainVars, batchVars>>

\* the caller of the forecast changes the payload it was handed
CallerMutates(t) ==
    /\ req[t].pc = "responded"
    /\ req[t].payload # 0
    /\ ~heap[req[t].payload].mutated
    /\ heap' = [heap EXCEPT ![req[t].payload].mutated = TRUE]
    /\ UNCHANGED <<now, configVars, solcast_cache, limiterVars, req,
                   forecast_started, search_started, last_store>>
    /\ UNCHANGED <<trainVars, batchVars>>

\* the response has been sent and dropped; the thread serves the next request
Return(t) ==
    /\ req[t].pc = "responded"
    /\ req' = [req EXCEPT ![t] = IdleReq]
    /\ heap' = Collect(heap, solcast_cache, req')
    /\ UNCHANGED <<now, configVars, solcast_cache, limiterVars,
                   forecast_started, search_started, last_store>>
    /\ UNCHANGED <<trainVars, batchVars>>

\* time passes
Tick(limit) ==
    /\ now < limit
    /\ now' = now + 1
    /\ UNCHANGED <<configVars, solcast_cache, heap, limiterVars, req,
                   forecast_started, search_started, last_store>>
    /\ UNCHANGED <<trainVars, batchVars>>

(***************************************************************************)
(* The forecast with the steps of _get_cached_forecast and                 *)
(* _store_forecast_in_cache under _solcast_cache_lock taken one at a time  *)
(***************************************************************************)
\* views.py 297-368 and 52-55: the parameters and the API key are checked; with
\* a TTL the lookup computes the key and goes for the lock
ForecastEnter(t, lat, lon) ==
    /\ Dispatch(t)
    /\ forecast_started < MaxLockRequests
    /\ forecast_started' = forecast_started + 1
    /\ LET r0 == [IdleReq EXCEPT !.kind = "forecast", !.lat = lat, !.lon = lon]
           code == ForecastPreflight("ok", lat, lon)
       IN req' = [req EXCEPT ![t] =
              IF code # 0
              THEN Respond([r0 EXCEPT !.trace =
                               IF code = 500 THEN <<"config">> ELSE <<>>], code)
              ELSE IF SOLCAST_CACHE_TTL = 0
              THEN [r0 EXCEPT !.pc = "fetch", !.trace = <<"config", "cache">>]
              ELSE [r0 EXCEPT !.pc = "get_lock", !.trace = <<"config">>]]
    /\ UNCHANGED <<now, configVars, solcast_cache, heap, limiterVars, search_started,
                   last_store>>
    /\ UNCHANGED <<trainVars, payloadVars, ingestVars, serveVars, solcast_cache_lock>>

\* variant: the lookup goes on without waiting for the lock
CacheGetAcquire_NoWait(t) ==
    /\ req[t].pc = "get_lock"
    /\ solcast_cache_lock' = t
    /\ req' = [req EXCEPT ![t].pc = "get_read"]
    /\ UNCHANGED <<now, configVars, solcast_cache, heap, limiterVars, forecast_started,
                   search_started, last_store>>
    /\ UNCHANGED <<trainVars, payloadVars, ingestVars, serveVars>>

\* views.py 56: with _solcast_cache_lock (the lookup)
CacheGetAcquire(t) ==
    /\ req[t].pc = "get_lock"
    /\ solcast_cache_lock = "free"
    /\ solcast_cache_lock' = t
    /\ req' = [req EXCEPT ![t].pc = "get_read"]
    /\ UNCHANGED <<now, configVars, solcast_cache, heap, limiterVars, forecast_started,
                   search_started, last_store>>
    /\ UNCHANGED <<trainVars, payloadVars, ingestVars, serveVars>>

\* views.py 57: cached = _solcast_cache.get(cache_key)
CacheGetRead(t) ==
    /\ req[t].pc = "get_read"
    /\ LET cache_key == SolcastCacheKey(req[t].lat, req[t].lon) IN
       req' = [req EXCEPT ![t].pc = "get_test",
                          ![t].cached = IF cache_key \in DOMAIN solcast_cache
                                        THEN solcast_cache[cache_key] ELSE None]
    /\ UNCHANGED <<now, configVars, solcast_cache, heap, limiterVars, forecast_started,
                   search_started, last_store>>
    /\ UNCHANGED <<trainVars, payloadVars, ingestVars, serveVars, solcast_cache_lock>>

\* variant: a lookup that finds no entry returns without releasing the lock
CacheGetTest_KeepsLock(t) ==
    /\ req[t].pc = "get_test"
    /\ LET cached == req[t].cached
           payload == DeepCopy(heap, cached.data)
       IN IF cached # None /\ cached.expires_at > now
          THEN /\ solcast_cache_lock' = "free"
               /\ req' = [req EXCEPT ![t] =
                      [@ EXCEPT !.pc = "responded", !.status = 200, !.source = "cache",
                                !.payload = payload, !.trace = Append(@, "cache")]]
               /\ heap' = Collect(
                      [o \in DOMAIN heap \cup {payload} |->
                          IF o = payload THEN CacheHitPayload(heap, cached)
                          ELSE heap[o]],
                      solcast_cache, req')
          ELSE IF cached # None
          THEN /\ req' = [req EXCEPT ![t].pc = "get_pop"]
               /\ UNCHANGED <<solcast_cache_lock, heap>>
          ELSE /\ req' = [req EXCEPT ![t] =
                      [@ EXCEPT !.pc = "fetch", !.trace = Append(@, "cache")]]
               /\ UNCHANGED <<solcast_cache_lock, heap>>
    /\ UNCHANGED <<now, configVars, solcast_cache, limiterVars, forecast_started,
                   search_started, last_store>>
    /\ UNCHANGED <<trainVars, payloadVars, ingestVars, serveVars>>

\* views.py 58-60 and 63, 369-376: the expiry is compared with the clock. An
\* unexpired entry is returned, the lock released and a copy answered; an
\* expired one is to be removed; with no entry the lock is released and None
\* returned.
CacheGetTest(t) ==
    /\ req[t].pc = "get_test"
    /\ LET cached == req[t].cached
           payload == DeepCopy(heap, cached.data)
       IN IF cached # None /\ cached.expires_at > now
          THEN /\ solcast_cache_lock' = "free"
               /\ req' = [req EXCEPT ![t] =
                      [@ EXCEPT !.pc = "responded", !.status = 200, !.source = "cache",
                                !.payload = payload, !.trace = Append(@, "cache")]]
               /\ heap' = Collect(
                      [o \in DOMAIN heap \cup {payload} |->
                          IF o = payload THEN CacheHitPayload(heap, cached)
                          ELSE heap[o]],
                      solcast_cache, req')
          ELSE IF cached # None
          THEN /\ req' = [req EXCEPT ![t].pc = "get_pop"]
               /\ UNCHANGED <<solcast_cache_lock, heap>>
          ELSE /\ solcast_cache_lock' = "free"
               /\ req' = [req EXCEPT ![t] =
                      [@ EXCEPT !.pc = "fetch", !.trace = Append(@, "cache")]]
               /\ UNCHANGED heap
    /\ UNCHANGED <<now, configVars, solcast_cache, limiterVars, forecast_started,
                   search_started, last_store>>
    /\ UNCHANGED <<trainVars, payloadVars, ingestVars, serveVars>>

\* views.py 62-63: _solcast_cache.pop(cache_key, None); the lock is released
\* and None returned
CacheGetPop(t) ==
    /\ req[t].pc = "get_pop"
    /\ solcast_cache' = DictPop(solcast_cache, SolcastCacheKey(req[t].lat, req[t].lon))
    /\ solcast_cache_lock' = "free"
    /\ req' = [req EXCEPT ![t] =
           [@ EXCEPT !.pc = "fetch", !.cached = None, !.evicted = TRUE,
                     !.trace = Append(@, "cache")]]
    /\ heap' = Collect(heap, solcast_cache', req')
    /\ UNCHANGED <<now, configVars, limiterVars, forecast_started, search_started,
                   last_store>>
    /\ UNCHANGED <<trainVars, payloadVars, ingestVars, serveVars>>

\* views.py 70: with _solcast_cache_lock (the store)
CacheStoreAcquire(t) ==
    /\ req[t].pc = "store"
    /\ solcast_cache_lock = "free"
    /\ solcast_cache_lock' = t
    /\ req' = [req EXCEPT ![t].pc = "store_write"]
    /\ UNCHANGED <<now, configVars, solcast_cache, heap, limiterVars, forecast_started,
                   search_started, last_store>>
    /\ UNCHANGED <<trainVars, payloadVars, ingestVars, serveVars>>

\* views.py 71-74 and 400: the entry is written with the clock read under the
\* lock, the lock released and the payload answered
CacheStoreWrite(t) ==
    /\ req[t].pc = "store_write"
    /\ LET payload == Alloc(heap)
           heap1 == [o \in DOMAIN heap \cup {payload} |->
                        IF o = payload
                        THEN OriginPayload(req[t], now, SOLCAST_CACHE_TTL)
                        ELSE heap[o]]
           copy == DeepCopy(heap1, payload)
           heap2 == [o \in DOMAIN heap1 \cup {copy} |->
                        IF o = copy THEN heap1[payload] ELSE heap1[o]]
       IN /\ solcast_cache' = StoreForecastInCache(solcast_cache, req[t].lat, req[t].lon,
                                                   copy, now, SOLCAST_CACHE_TTL)
          /\ req' = [req EXCEPT ![t] =
                 [@ EXCEPT !.pc = "responded", !.status = 200, !.source = "origin",
                           !.payload = payload]]
          /\ heap' = Collect(heap2, solcast_cache', req')
          /\ last_store' = DictSet(last_store, SolcastCacheKey(req[t].lat, req[t].lon),
                                   [at |-> now, payload |-> heap1[payload]])
    /\ solcast_cache_lock' = "free"
    /\ UNCHANGED <<now, configVars, limiterVars, forecast_started, search_started>>
    /\ UNCHANGED <<trainVars, payloadVars, ingestVars, serveVars>>

\* time passes, also beyond the limit while a request sleeps in the limiter
TickSleeping(limit) ==
    /\ \/ now < limit
       \/ \E t \in Threads : req[t].pc = "rate_limit" /\ now < req[t].wake_at
    /\ now' = now + 1
    /\ UNCHANGED <<configVars, solcast_cache, heap, limiterVars, req,
                   forecast_started, search_started, last_store>>
    /\ UNCHANGED <<trainVars, batchVars>>

(***************************************************************************)
(* The forecast payload: _summarize_daily_energy, _build_forecast_payload  *)
(*                                                                         *)
(* An entry of the forecasts list is [period_end, ghi]. period_end is      *)
(* <<day, hour>> for "<date>T<time>", with the dates numbered in their     *)
(* order as strings, or <<>> when it is missing or empty; ghi is a number  *)
(* of W/m2, or NoGhi when it is missing or null.                           *)
(***************************************************************************)
NoGhi == 0 - 1

\* day and hour of the i-th of n entries: the days ascending, descending, or
\* taking turns
DayOf(i, n, per_day, order) ==
    IF order = "ascending" THEN (i - 1) \div per_day
    ELSE IF order = "descending" THEN (n - i) \div per_day
    ELSE i % 9

\* a provider response of n entries; every third entry lacks what hole names
ProviderList(n, per_day, order, hole) ==
    [i \in 1..n |->
        [period_end |-> IF hole = "period_end" /\ i % 3 = 0 THEN <<>>
                        ELSE <<DayOf(i, n, per_day, order), i % per_day>>,
         ghi |-> IF hole = "ghi" /\ i % 3 = 0 THEN NoGhi ELSE 100 * (i % 4)]]

ProviderLists ==
    {ProviderList(n, per_day, order, hole) :
        n \in 0..MaxEntries, per_day \in {1, 5, 24},
        order \in {"ascending", "descending", "turns"},
        hole \in {"none", "period_end", "ghi"}}

Min(a, b) == IF a < b THEN a ELSE b

\* sorted(keys)
RECURSIVE Sorted(_)
Sorted(keys) ==
    IF keys = {} THEN <<>>
    ELSE LET least == CHOOSE k \in keys : \A j \in keys : k <= j
         IN <<least>> \o Sorted(keys \ {least})

\* the sum of ghi over the entries of day_key that have a period_end and a ghi
RECURSIVE DailyTotal(_, _)
DailyTotal(forecasts, day_key) ==
    IF forecasts = <<>> THEN 0
    ELSE LET item == Head(forecasts)
             counted == /\ item.period_end # <<>>
                        /\ item.ghi # NoGhi
                        /\ item.period_end[1] = day_key
         IN (IF counted THEN item.ghi ELSE 0) + DailyTotal(Tail(forecasts), day_key)

\* variant: the summary has every day of the response
SummarizeDailyEnergy_AllDays(forecasts, days) ==
    LET keys == {forecasts[i].period_end[1] :
                    i \in {j \in 1..Len(forecasts) :
                              forecasts[j].period_end # <<>> /\ forecasts[j].ghi # NoGhi}}
        in_order == Sorted(keys)
    IN [i \in 1..Len(in_order) |->
           [date |-> in_order[i], total |-> DailyTotal(forecasts, in_order[i])]]

\* views.py 168-186: _summarize_daily_energy; total is the day's sum in Wh/m2
SummarizeDailyEnergy(forecasts, days) ==
    LET keys == {forecasts[i].period_end[1] :
                    i \in {j \in 1..Len(forecasts) :
                              forecasts[j].period_end # <<>> /\ forecasts[j].ghi # NoGhi}}
        in_order == Sorted(keys)
    IN [i \in 1..Min(days, Len(in_order)) |->
           [date |-> in_order[i], total |-> DailyTotal(forecasts, in_order[i])]]

HasTime(entry) == entry.time # <<>>

\* views.py 217-248: the hourly list of the first 48 entries, less those without
\* a time; the summary of 7 days; the length
BuildForecastPayload(forecasts) ==
    LET hourly == [i \in 1..Min(HOURLY_ENTRIES, Len(forecasts)) |->
                      [time |-> forecasts[i].period_end, ghi |-> forecasts[i].ghi]]
    IN [pc |-> "done",
        hourly_forecast |-> SelectSeq(hourly, HasTime),
        daily_summary |-> SummarizeDailyEnergy(forecasts, SUMMARY_DAYS),
        forecast_length |-> Min(Len(forecasts), SOLCAST_MAX_HOURS)]

\* _build_forecast_payload is applied to the provider's forecasts
BuildPayload ==
    /\ built.pc = "idle"
    /\ built' = BuildForecastPayload(provider_forecasts)
    /\ UNCHANGED <<provider_forecasts, ingestVars, serveVars, solcast_cache_lock,
                   trainVars, webVars>>

(***************************************************************************)
(* Uploads: FileHandler.process_weather_csv, process_production_csv and    *)
(* WeatherUploadViewSet.create, ProductionUploadViewSet.create             *)
(*                                                                         *)
(* A file is [present, readable, columns, rows]: readable is whether       *)
(* _validate_file and _read_dataframe pass; a row gives each column of the *)
(* file its cell as text, "" for an empty cell.                            *)
(***************************************************************************)
\* cells pd.to_datetime parses, and what strftime('%Y-%m-%dT%H:%M:%S') gives
Strftime == [c \in {"2024-01-01 10:00"} |-> "2024-01-01T10:00:00"]

NaT == "NaT"

\* pd.to_datetime(cell, errors='coerce')
ToDatetime(cell) == IF cell \in DOMAIN Strftime THEN cell ELSE NaT

\* cells pd.to_numeric parses
NumericCells == {"7", "3"}

NaN == "NaN"

\* pd.to_numeric(cell, errors='coerce')
ToNumeric(cell) == IF cell \in NumericCells THEN cell ELSE NaN

\* Series.fillna(value)
FillNa(cell, value) == IF cell = NaN THEN value ELSE cell

\* numeric_cols of process_weather_csv
NumericCols ==
    {"temperature", "humidity", "wind_speed", "cloud_cover", "solar_irradiance",
     "precipitation"}

\* the column sets of the weather files: all columns, the timestamp and the
\* temperature only, no timestamp
WeatherColumnSets ==
    {NumericCols \cup {"timestamp", "location"}, {"timestamp", "temperature"},
     {"temperature", "humidity"}}

\* the rows of the weather files differ in timestamp and temperature
WeatherRow(timestamp, temperature) ==
    [c \in NumericCols \cup {"timestamp", "location"} |->
        IF c = "timestamp" THEN timestamp
        ELSE IF c = "temperature" THEN temperature
        ELSE IF c = "location" THEN "roof"
        ELSE "3"]

WeatherRows ==
    {WeatherRow("2024-01-01 10:00", "7"), WeatherRow("2024-01-01 10:00", "warm"),
     WeatherRow("2024-01-01 10:00", ""), WeatherRow("yesterday", "7"),
     WeatherRow("", "7")}

\* the column sets of the production files: all columns, the required ones
\* only, no energy_output_kwh
ProductionColumnSets ==
    {{"timestamp", "energy_output_kwh", "panel_id", "system_capacity_kw", "efficiency"},
     {"timestamp", "energy_output_kwh"},
     {"timestamp", "system_capacity_kw"}}

ProductionRow(timestamp, energy, capacity) ==
    [c \in {"timestamp", "energy_output_kwh", "panel_id", "system_capacity_kw",
             "efficiency"} |->
        IF c = "timestamp" THEN timestamp
        ELSE IF c = "energy_output_kwh" THEN energy
        ELSE IF c = "panel_id" THEN "p1"
        ELSE capacity]

ProductionRows ==
    {ProductionRow("2024-01-01 10:00", "7", "3"),
     ProductionRow("2024-01-01 10:00", "7", "n/a"),
     ProductionRow("2024-01-01 10:00", "lots", "3"),
     ProductionRow("2024-01-01 10:00", "", ""),
     ProductionRow("yesterday", "7", "3")}

\* the sequences of at most n elements of S
SeqsUpTo(S, n) == UNION {[1..m -> S] : m \in 0..n}

\* row restricted to the columns of the file
Restrict(row, columns) == [c \in columns |-> row[c]]

NoFile == [present |-> FALSE, readable |-> FALSE, columns |-> {}, rows |-> <<>>]

FilesOf(column_sets, rows) ==
    {[present |-> TRUE, readable |-> TRUE, columns |-> columns,
      rows |-> [i \in 1..Len(rs) |-> Restrict(rs[i], columns)]] :
        columns \in column_sets, rs \in SeqsUpTo(rows, MaxRows)}
    \cup {[present |-> TRUE, readable |-> FALSE, columns |-> {}, rows |-> <<>>], NoFile}

WeatherFiles == FilesOf(WeatherColumnSets, WeatherRows)

ProductionFiles == FilesOf(ProductionColumnSets, ProductionRows)

\* rows of earlier uploads
EarlierWeatherRow ==
    [c \in NumericCols \cup {"timestamp"} |->
        IF c = "timestamp" THEN "2023-12-31T10:00:00" ELSE "3"]

EarlierProductionRow ==
    [c \in {"timestamp", "energy_output_kwh"} |->
        IF c = "timestamp" THEN "2023-12-31T10:00:00" ELSE "3"]

\* the production rows a training finds: none, a row in the hour of the
\* weather row (at the same time or later in the hour), a row of the next
\* hour, two rows in the hour of the weather row
ProductionTables ==
    LET Row(ts) == [c \in {"timestamp", "energy_output_kwh"} |->
                       IF c = "timestamp" THEN ts ELSE "3"]
    IN {<<>>, <<EarlierProductionRow>>, <<Row("2023-12-31T10:30:00")>>,
        <<Row("2023-12-31T11:00:00")>>,
        <<EarlierProductionRow, Row("2023-12-31T10:30:00")>>}

\* raise Exception(...)
Raised == [ok |-> FALSE, records |-> <<>>]

\* variant: the rows with an unparseable timestamp are left out
ProcessWeatherCsv_SkipsBadRows(file) ==
    IF ~file.readable \/ "timestamp" \notin file.columns THEN Raised
    ELSE LET good == {i \in 1..Len(file.rows) :
                         ToDatetime(file.rows[i]["timestamp"]) # NaT}
             kept == Sorted(good)
         IN [ok |-> TRUE,
             records |-> [i \in 1..Len(kept) |->
                 [c \in file.columns |->
                     IF c = "timestamp" THEN Strftime[file.rows[kept[i]][c]]
                     ELSE IF c \in NumericCols
                     THEN FillNa(ToNumeric(file.rows[kept[i]][c]), "0")
                     ELSE file.rows[kept[i]][c]]]]

\* file_handler.py 105-148: process_weather_csv
ProcessWeatherCsv(file) ==
    IF ~file.readable THEN Raised
    ELSE IF "timestamp" \notin file.columns THEN Raised
    ELSE IF \E i \in 1..Len(file.rows) : ToDatetime(file.rows[i]["timestamp"]) = NaT
    THEN Raised
    ELSE [ok |-> TRUE,
          records |-> [i \in 1..Len(file.rows) |->
              [c \in file.columns |->
                  IF c = "timestamp" THEN Strftime[ToDatetime(file.rows[i][c])]
                  ELSE IF c \in NumericCols
                  THEN FillNa(ToNumeric(file.rows[i][c]), "0")
                  ELSE file.rows[i][c]]]]

\* variant: a non-numeric energy_output_kwh is taken as 0
ProcessProductionCsv_FillsEnergy(file) ==
    IF ~file.readable THEN Raised
    ELSE IF "timestamp" \notin file.columns \/ "energy_output_kwh" \notin file.columns
    THEN Raised
    ELSE IF \E i \in 1..Len(file.rows) : ToDatetime(file.rows[i]["timestamp"]) = NaT
    THEN Raised
    ELSE [ok |-> TRUE,
          records |-> [i \in 1..Len(file.rows) |->
              [c \in file.columns |->
                  IF c = "timestamp" THEN Strftime[ToDatetime(file.rows[i][c])]
                  ELSE IF c = "energy_output_kwh"
                  THEN FillNa(ToNumeric(file.rows[i][c]), "0")
                  ELSE IF c \in {"system_capacity_kw", "efficiency"}
                  THEN ToNumeric(file.rows[i][c])
                  ELSE file.rows[i][c]]]]

\* file_handler.py 150-194: process_production_csv
ProcessProductionCsv(file) ==
    IF ~file.readable THEN Raised
    ELSE IF "timestamp" \notin file.columns \/ "energy_output_kwh" \notin file.columns
    THEN Raised
    ELSE IF \E i \in 1..Len(file.rows) : ToDatetime(file.rows[i]["timestamp"]) = NaT
    THEN Raised
    ELSE IF \E i \in 1..Len(file.rows) : ToNumeric(file.rows[i]["energy_output_kwh"]) = NaN
    THEN Raised
    ELSE [ok |-> TRUE,
          records |-> [i \in 1..Len(file.rows) |->
              [c \in file.columns |->
                  IF c = "timestamp" THEN Strftime[ToDatetime(file.rows[i][c])]
                  ELSE IF c \in {"energy_output_kwh", "system_capacity_kw", "efficiency"}
                  THEN ToNumeric(file.rows[i][c])
                  ELSE file.rows[i][c]]]]

IdleUpload ==
    [pc |-> "idle", kind |-> "", file |-> NoFile, records |-> <<>>, status |-> 0,
     count |-> 0]

\* views.py 538-588 and 595-645: the response of create and the rows it
\* inserts, given what the file handler returned and whether the insert of the
\* storage passes
UploadOutcome(file, data, insert_ok) ==
    IF ~file.present THEN [status |-> 400, inserted |-> <<>>]
    ELSE IF ~data.ok THEN [status |-> 400, inserted |-> <<>>]
    ELSE IF Len(data.records) = 0 THEN [status |-> 400, inserted |-> <<>>]
    ELSE IF ~insert_ok THEN [status |-> 400, inserted |-> <<>>]
    ELSE [status |-> 200, inserted |-> data.records]

\* views.py 538-588: WeatherUploadViewSet.create
WeatherUploadCreate(file, insert_ok) ==
    /\ upload.pc = "idle"
    /\ LET data == IF file.present THEN ProcessWeatherCsv(file) ELSE Raised
           out == UploadOutcome(file, data, insert_ok)
       IN /\ weather_data' = weather_data \o out.inserted
          /\ upload' = [pc |-> "responded", kind |-> "weather", file |-> file,
                        records |-> data.records, status |-> out.status,
                        count |-> Len(out.inserted)]
    /\ UNCHANGED <<production_data, payloadVars, serveVars, solcast_cache_lock,
                   trainVars, webVars>>

\* views.py 595-645: ProductionUploadViewSet.create
ProductionUploadCreate(file, insert_ok) ==
    /\ upload.pc = "idle"
    /\ LET data == IF file.present THEN ProcessProductionCsv(file) ELSE Raised
           out == UploadOutcome(file, data, insert_ok)
       IN /\ production_data' = production_data \o out.inserted
          /\ upload' = [pc |-> "responded", kind |-> "production", file |-> file,
                        records |-> data.records, status |-> out.status,
                        count |-> Len(out.inserted)]
    /\ UNCHANGED <<weather_data, payloadVars, serveVars, solcast_cache_lock,
                   trainVars, webVars>>

(***************************************************************************)
(* Predictions: PredictionViewSet.hourly / daily, SolarEnergyPredictor     *)
(***************************************************************************)
\* the default feature vector's solar_irradiance, 500.0
DEFAULT_IRRADIANCE == 500

\* confidence_score with a trained model, 0.85, in hundredths
CONFIDENCE_MODEL == 85

\* confidence_score under the heuristic, 0.5, in hundredths
CONFIDENCE_HEURISTIC == 50

\* predict_daily: the hourly prediction times 24
HOURS_PER_DAY == 24

\* the values of ?hours= / ?days=: integers, or text int() does not parse
CountInputs == 0..MaxCount

\* the stored predictions the model starts with: rows [prediction_type,
\* timestamp] in insertion order, the timestamps of one type distinct
PredictionTables ==
    {<<>>,
     <<[prediction_type |-> "daily", timestamp |-> 1]>>,
     <<[prediction_type |-> "hourly", timestamp |-> 2],
       [prediction_type |-> "hourly", timestamp |-> 1],
       [prediction_type |-> "hourly", timestamp |-> 3]>>}

\* the weather rows the model starts with: none, a row of a file with all
\* columns, a row of a file with the timestamp and temperature columns only
WeatherTables ==
    {<<>>, <<EarlierWeatherRow>>,
     <<[c \in {"timestamp", "temperature"} |->
           IF c = "timestamp" THEN "2023-12-31T00:00:00" ELSE "7"]>>}

\* the rows of a table that satisfy a filter, as a set of indices
Matching(rows, prediction_type) ==
    {i \in 1..Len(rows) : rows[i].prediction_type = prediction_type}

\* .order('timestamp', desc=True): the rows of the indices in idx, latest first
RECURSIVE OrderDesc(_, _)
OrderDesc(rows, idx) ==
    IF idx = {} THEN <<>>
    ELSE LET top == CHOOSE i \in idx :
                        \A j \in idx : rows[j].timestamp <= rows[i].timestamp
         IN <<rows[top]>> \o OrderDesc(rows, idx \ {top})

\* list(reversed(data))
Reversed(data) == [i \in 1..Len(data) |-> data[Len(data) + 1 - i]]

\* .limit(n)
Limit(data, n) == SubSeq(data, 1, Min(Len(data), n))

\* variant: the rows are answered as the query gives them, latest first
FetchTrainedPredictions_LatestFirst(rows, prediction_type, limit) ==
    Limit(OrderDesc(rows, Matching(rows, prediction_type)), limit)

\* views.py 696-712: _fetch_trained_predictions
FetchTrainedPredictions(rows, prediction_type, limit) ==
    Reversed(Limit(OrderDesc(rows, Matching(rows, prediction_type)), limit))

IdlePredict ==
    [pc |-> "idle", kind |-> "", count |-> 0, invoked |-> FALSE,
     model_loaded |-> FALSE, model_version |-> 0, no_model |-> "",
     records |-> <<>>, status |-> 0, keys |-> {}]

\* Response({'error': str(e)}, status=500) of the prediction views
PredictionError(rq) ==
    [rq EXCEPT !.pc = "responded", !.status = 500, !.keys = {"error"}]

\* views.py 714-722 / 733-741: the count is parsed, the stored predictions are
\* fetched and, if there are any, answered. parse_ok = FALSE: int() raises;
\* fetch_ok = FALSE: the query raises.
PredictionGet(kind, count, parse_ok, fetch_ok) ==
    /\ predict.pc = "idle"
    /\ ~parse_ok => count = 0
    /\ LET r0 == [IdlePredict EXCEPT !.kind = kind, !.count = count]
           stored_predictions == FetchTrainedPredictions(predictions, kind, count)
       IN predict' =
              IF ~parse_ok \/ ~fetch_ok THEN PredictionError(r0)
              ELSE IF stored_predictions # <<>>
              THEN [r0 EXCEPT !.pc = "responded", !.status = 200,
                              !.records = stored_predictions]
              ELSE [r0 EXCEPT !.pc = "construct"]
    /\ UNCHANGED <<predictions, login>>
    /\ UNCHANGED <<payloadVars, ingestVars, solcast_cache_lock, trainVars, webVars>>

\* predictor.py 18-44: SolarEnergyPredictor() with _load_model. row is the
\* row the query gives (0: none), query_ok = FALSE: create_client or the query
\* raises, file_exists: os.path.exists(model_path), load_ok = FALSE: open or
\* pickle.load raises. Every exception is caught.
LoadModel(row, query_ok, file_exists, load_ok) ==
    IF ~query_ok THEN [model_loaded |-> FALSE, model_version |-> 0, no_model |-> "raised"]
    ELSE IF row = 0 THEN [model_loaded |-> FALSE, model_version |-> 0, no_model |-> "no_row"]
    ELSE IF ~file_exists
    THEN [model_loaded |-> FALSE, model_version |-> 0, no_model |-> "no_file"]
    ELSE IF ~load_ok THEN [model_loaded |-> FALSE, model_version |-> 0, no_model |-> "raised"]
    ELSE [model_loaded |-> TRUE, model_version |-> row, no_model |-> ""]

\* .eq('is_active', True).eq('model_type', 'regression').limit(1): one of the
\* active regression rows, 0 when there is none
ActiveModelRows(rows) ==
    IF ActiveRows(rows, "regression") = {} THEN {0} ELSE ActiveRows(rows, "regression")

\* views.py 724 / 743: the service is constructed
PredictorConstruct(row, query_ok, file_exists, load_ok) ==
    /\ predict.pc = "construct"
    /\ row \in ActiveModelRows(model_versions)
    /\ LET m == LoadModel(row, query_ok, file_exists, load_ok) IN
       predict' = [predict EXCEPT !.pc = "infer", !.invoked = TRUE,
                                  !.model_loaded = m.model_loaded,
                                  !.model_version = m.model_version,
                                  !.no_model = m.no_model]
    /\ UNCHANGED <<predictions, login>>
    /\ UNCHANGED <<payloadVars, ingestVars, solcast_cache_lock, trainVars, webVars>>

\* a value of a stored numeric column as a number
ToFloat(cell) == IF cell = "7" THEN 7 ELSE IF cell = "3" THEN 3 ELSE 0

\* predictor.py 46-69: features[4] of _get_weather_features. row is the
\* weather row with the timestamp asked for (0: none, or the query raised):
\* weather.get('solar_irradiance', 500.0) is None when the row has no value in
\* that column.
SolarIrradiance(rows, row) ==
    IF row = 0 THEN [null |-> FALSE, value |-> DEFAULT_IRRADIANCE]
    ELSE IF "solar_irradiance" \in DOMAIN rows[row]
    THEN [null |-> FALSE, value |-> ToFloat(rows[row]["solar_irradiance"])]
    ELSE [null |-> TRUE, value |-> 0]

\* max(0, features[4] * 0.5), in tenths of a kWh
Heuristic(irradiance) == IF irradiance * 5 > 0 THEN irradiance * 5 ELSE 0

\* predictor.py 82-99 / 115-132: the record of one offset; the prediction of a
\* trained model is not modelled (by = "model")
PredictionRecord(kind, offset, irradiance, model_loaded, model_version) ==
    [offset |-> offset,
     by |-> IF model_loaded THEN "model" ELSE "heuristic",
     predicted_output_kwh |->
        IF model_loaded THEN 0
        ELSE IF kind = "daily" THEN Heuristic(irradiance) * HOURS_PER_DAY
        ELSE Heuristic(irradiance),
     confidence_score |-> IF model_loaded THEN CONFIDENCE_MODEL ELSE CONFIDENCE_HEURISTIC,
     model_version |-> model_version,
     solar_irradiance |-> irradiance]

\* views.py 725-726 / 744-745 with predict_hourly / predict_daily: matched
\* gives for each offset the weather row with its timestamp (0: none). A None
\* among the features raises TypeError in the arithmetic, and the view answers
\* 500.
PredictInfer(matched) ==
    /\ predict.pc = "infer"
    /\ matched \in [1..predict.count -> 0..Len(weather_data)]
    /\ LET irradiance == [i \in 1..predict.count |->
                             SolarIrradiance(weather_data, matched[i])]
       IN predict' =
              IF \E i \in 1..predict.count : irradiance[i].null
              THEN PredictionError(predict)
              ELSE [predict EXCEPT
                      !.pc = "responded", !.status = 200,
                      !.records = [i \in 1..predict.count |->
                          PredictionRecord(predict.kind, i - 1, irradiance[i].value,
                                           predict.model_loaded, predict.model_version)]]
    /\ UNCHANGED <<predictions, login>>
    /\ UNCHANGED <<payloadVars, ingestVars, solcast_cache_lock, trainVars, webVars>>

\* the response has been sent
PredictionReturn ==
    /\ predict.pc = "responded"
    /\ predict' = IdlePredict
    /\ UNCHANGED <<predictions, login>>
    /\ UNCHANGED <<payloadVars, ingestVars, solcast_cache_lock, trainVars, webVars>>

(***************************************************************************)
(* Login: LoginView.post                                                   *)
(***************************************************************************)
IdleLogin == [pc |-> "idle", status |-> 0, keys |-> {}]

\* views.py 257-291: given: email and password are both in the body;
\* outcome: what sign_in_with_password comes to ("user", "no_user", "raises")
LoginResponse(given, outcome) ==
    IF ~given THEN [pc |-> "responded", status |-> 400, keys |-> {"error"}]
    ELSE IF outcome = "user"
    THEN [pc |-> "responded", status |-> 200, keys |-> {"token", "user"}]
    ELSE [pc |-> "responded", status |-> 401, keys |-> {"error"}]

LoginPost(given, outcome) ==
    /\ login.pc = "idle"
    /\ ~given => outcome = "no_user"
    /\ login' = LoginResponse(given, outcome)
    /\ UNCHANGED <<predictions, predict>>
    /\ UNCHANGED <<payloadVars, ingestVars, solcast_cache_lock, trainVars, webVars>>

\* the response has been sent
LoginReturn ==
    /\ login.pc = "responded"
    /\ login' = IdleLogin
    /\ UNCHANGED <<predictions, predict>>
    /\ UNCHANGED <<payloadVars, ingestVars, solcast_cache_lock, trainVars, webVars>>

(***************************************************************************)
(* Specifications                                                          *)
(***************************************************************************)
TrainIdle ==
    /\ model_versions = <<>>
    /\ training_jobs = <<>>
    /\ trainer = [w \in TrainWorkers |-> IdleTrainer]
    /\ train_started = 0

\* no prediction or login request is being served, no prediction is stored
ServeIdle ==
    /\ predictions = <<>>
    /\ predict = IdlePredict
    /\ login = IdleLogin

\* the tables hold the rows of earlier uploads, or none
IngestInit ==
    /\ weather_data \in {<<>>, <<EarlierWeatherRow>>}
    /\ production_data \in {<<>>, <<EarlierProductionRow>>}
    /\ upload = IdleUpload
    /\ ServeIdle

\* no provider response is being turned into a payload
PayloadIdle ==
    /\ provider_forecasts = <<>>
    /\ built = [pc |-> "idle"]

\* no upload has been served
IngestIdle ==
    /\ weather_data = <<>>
    /\ production_data = <<>>
    /\ upload = IdleUpload
    /\ ServeIdle

WebIdle ==
    /\ now = 0
    /\ solcast_cache_lock = "free"
    /\ solcast_cache = <<>>
    /\ heap = <<>>
    /\ nominatim_lock = "free"
    /\ nominatim_last_call = 0
    /\ acquires = [n |-> 0, first |-> 0, prev |-> 0, last |-> 0]
    /\ http_calls = [n |-> 0, last |-> 0]
    /\ req = [t \in Threads |-> IdleReq]
    /\ forecast_started = 0
    /\ search_started = 0
    /\ last_store = <<>>

\* the process as configured by the settings module
Configured ==
    /\ SOLCAST_CACHE_TTL = 2
    /\ env_api_key = TRUE
    /\ solcast_configured = TRUE
    /\ nominatim_configured = TRUE

\* the configurations of the model: all settings given, or all but one
AtMostOneUnset ==
    Cardinality({i \in 1..4 :
        <<SOLCAST_CACHE_TTL = 0, ~env_api_key, ~solcast_configured,
          ~nominatim_configured>>[i]}) <= 1

\* the forecast and geocode endpoints
Init ==
    /\ TrainIdle
    /\ WebIdle
    /\ PayloadIdle
    /\ IngestIdle
    /\ SOLCAST_CACHE_TTL \in TTLValues
    /\ env_api_key \in BOOLEAN
    /\ solcast_configured \in BOOLEAN
    /\ nominatim_configured \in BOOLEAN
    /\ AtMostOneUnset

Next ==
    \/ \E t \in ForecastThreads, form \in {"ok", "missing", "unparseable"},
          lat \in LatInputs, lon \in LonInputs :
            ForecastGet(t, form, lat, lon)
    \/ \E t \in ForecastThreads, outcome \in {"ok", "http_error", "network", "empty"},
          body \in Bodies \cup {""} : ForecastFetch(t, outcome, body)
    \/ \E t \in ForecastThreads : CallNominatim(t)
    \/ \E t \in ForecastThreads : RateLimitRecord(t)
    \/ \E t \in ForecastThreads, ok \in BOOLEAN : NominatimHttp(t, ok)
    \/ \E t \in ForecastThreads : ForecastStore(t)
    \/ \E t \in ForecastThreads : CallerMutates(t)
    \/ \E t \in ForecastThreads : Return(t)
    \/ Tick(MaxTime)

Spec == Init /\ [][Next]_vars

\* two forecast requests at a time, for nearby coordinates
RaceInit ==
    /\ TrainIdle
    /\ WebIdle
    /\ PayloadIdle
    /\ IngestIdle
    /\ Configured

RaceNext ==
    \/ \E t \in Threads, lat \in RaceLatInputs, lon \in RaceLonInputs :
            ForecastGet(t, "ok", lat, lon)
    \/ \E t \in Threads, outcome \in {"ok", "network"}, body \in Bodies \cup {""} :
            ForecastFetch(t, outcome, body)
    \/ \E t \in Threads : CallNominatim(t)
    \/ \E t \in Threads : RateLimitRecord(t)
    \/ \E t \in Threads, ok \in BOOLEAN : NominatimHttp(t, ok)
    \/ \E t \in Threads : ForecastStore(t)
    \/ \E t \in Threads : CallerMutates(t)
    \/ \E t \in Threads : Return(t)
    \/ Tick(MaxTime)

SpecRace == RaceInit /\ [][RaceNext]_vars

\* the geocode search endpoint alone
RateInit ==
    /\ TrainIdle
    /\ WebIdle
    /\ PayloadIdle
    /\ IngestIdle
    /\ SOLCAST_CACHE_TTL = 2
    /\ env_api_key = TRUE
    /\ solcast_configured = TRUE
    /\ nominatim_configured \in BOOLEAN

RateNext ==
    \/ \E t \in Threads, q \in Queries : GeocodeSearch(t, q)
    \/ \E t \in Threads : CallNominatim(t)
    \/ \E t \in Threads : RateLimitRecord(t)
    \/ \E t \in Threads, ok \in BOOLEAN : NominatimHttp(t, ok)
    \/ \E t \in Threads : Return(t)
    \/ Tick(MaxRateTime)

SpecRate == RateInit /\ [][RateNext]_vars

\* forecasts for coordinates at the ends of the ranges, with every outcome of
\* the provider call
EdgeInit ==
    /\ TrainIdle
    /\ WebIdle
    /\ PayloadIdle
    /\ IngestIdle
    /\ SOLCAST_CACHE_TTL = 2
    /\ env_api_key \in BOOLEAN
    /\ solcast_configured \in BOOLEAN
    /\ nominatim_configured = TRUE

EdgeNext ==
    \/ \E t \in ForecastThreads, form \in {"ok", "missing", "unparseable"},
          lat \in EdgeLatInputs \cup {NoCoord}, lon \in EdgeLonInputs \cup {NoCoord} :
            ForecastGet(t, form, lat, lon)
    \/ \E t \in ForecastThreads, outcome \in FetchOutcomes, body \in Bodies \cup {""} :
            ForecastFetch(t, outcome, body)
    \/ \E t \in ForecastThreads : CallNominatim(t)
    \/ \E t \in ForecastThreads : RateLimitRecord(t)
    \/ \E t \in ForecastThreads, ok \in BOOLEAN : NominatimHttp(t, ok)
    \/ \E t \in ForecastThreads : ForecastStore(t)
    \/ \E t \in ForecastThreads : Return(t)
    \/ Tick(MaxTime)

SpecEdge == EdgeInit /\ [][EdgeNext]_vars

\* geocode searches and forecasts (with their reverse lookups) at a time
GeoInit ==
    /\ TrainIdle
    /\ WebIdle
    /\ PayloadIdle
    /\ IngestIdle
    /\ SOLCAST_CACHE_TTL = 2
    /\ env_api_key = TRUE
    /\ solcast_configured = TRUE
    /\ nominatim_configured \in BOOLEAN

GeoNext ==
    \/ \E t \in Threads, q \in {<<"a", "b">>, <<"a", "b", "c">>} : GeocodeSearch(t, q)
    \/ \E t \in Threads, lat \in {Float(FALSE, 1)}, lon \in RaceLonInputs :
            ForecastGet(t, "ok", lat, lon)
    \/ \E t \in Threads, body \in Bodies : ForecastFetch(t, "ok", body)
    \/ \E t \in Threads : CallNominatim(t)
    \/ \E t \in Threads : RateLimitRecord(t)
    \/ \E t \in Threads, ok \in BOOLEAN : NominatimHttp(t, ok)
    \/ \E t \in Threads : ForecastStore(t)
    \/ \E t \in Threads : Return(t)
    \/ Tick(MaxTime)

SpecGeo == GeoInit /\ [][GeoNext]_vars

\* the payload builder applied to provider responses
PayloadInit ==
    /\ TrainIdle
    /\ WebIdle
    /\ Configured
    /\ IngestIdle
    /\ provider_forecasts \in ProviderLists
    /\ built = [pc |-> "idle"]

PayloadNext == BuildPayload

SpecPayload == PayloadInit /\ [][PayloadNext]_vars

\* the upload endpoints
UploadInit ==
    /\ TrainIdle
    /\ WebIdle
    /\ Configured
    /\ PayloadIdle
    /\ IngestInit

UploadNext ==
    \/ \E file \in WeatherFiles, insert_ok \in BOOLEAN : WeatherUploadCreate(file, insert_ok)
    \/ \E file \in ProductionFiles, insert_ok \in BOOLEAN :
            ProductionUploadCreate(file, insert_ok)

SpecUpload == UploadInit /\ [][UploadNext]_vars

\* two forecast requests at a time for one cache key, the cache lock and the
\* limiter lock taken and released in steps of their own
LockInit ==
    /\ TrainIdle
    /\ WebIdle
    /\ PayloadIdle
    /\ IngestIdle
    /\ Configured

\* the steps of thread t's request
LockStep(t) ==
    \/ CacheGetAcquire(t)
    \/ CacheGetRead(t)
    \/ CacheGetTest(t)
    \/ CacheGetPop(t)
    \/ \E outcome \in {"ok", "network"}, body \in Bodies \cup {""} :
            ForecastFetch(t, outcome, body)
    \/ CallNominatim(t)
    \/ RateLimitRecord(t)
    \/ \E ok \in BOOLEAN : NominatimHttp(t, ok)
    \/ CacheStoreAcquire(t)
    \/ CacheStoreWrite(t)

LockNext ==
    \/ \E t \in Threads : ForecastEnter(t, Float(FALSE, 1), Float(FALSE, 1))
    \/ \E t \in Threads : LockStep(t)
    \/ \E t \in Threads : Return(t)
    \/ TickSleeping(MaxTime)

SpecLock == LockInit /\ [][LockNext]_vars

\* every thread goes on with the request it serves (a blocked acquire goes on
\* once the lock is free, an HTTP call ends at its timeout at the latest), and
\* time passes
SpecLockFair ==
    /\ SpecLock
    /\ WF_vars(TickSleeping(MaxTime))
    /\ \A t \in Threads : WF_vars(LockStep(t))

\* the training endpoint alone
TrainInit ==
    /\ TrainIdle
    /\ WebIdle
    /\ PayloadIdle
    /\ IngestIdle
    /\ Configured

TrainNext ==
    \/ \E w \in TrainWorkers, mt \in ModelTypes, ok \in BOOLEAN : TrainingCreate(w, mt, ok)
    \/ \E w \in TrainWorkers, ok \in BOOLEAN : TrainFit(w, ok)
    \/ \E w \in TrainWorkers, ok \in BOOLEAN : TrainDeactivate(w, ok)
    \/ \E w \in TrainWorkers, ok \in BOOLEAN : TrainInsert(w, ok)
    \/ \E w \in TrainWorkers, ok \in BOOLEAN : TrainingUpdateJob(w, ok)
    \/ \E w \in TrainWorkers : TrainingReturn(w)

SpecTrain == TrainInit /\ [][TrainNext]_vars

\* the training endpoint with weather and production rows in the tables, and
\* the login endpoint
TrainDataInit ==
    /\ TrainIdle
    /\ WebIdle
    /\ PayloadIdle
    /\ Configured
    /\ ServeIdle
    /\ upload = IdleUpload
    /\ weather_data \in {<<>>, <<EarlierWeatherRow>>}
    /\ production_data \in ProductionTables

TrainDataNext ==
    \/ \E mt \in ModelTypes, ok \in BOOLEAN : TrainingCreate("w1", mt, ok)
    \/ \E ok \in BOOLEAN : TrainFit("w1", ok)
    \/ \E ok \in BOOLEAN : TrainDeactivate("w1", ok)
    \/ \E ok \in BOOLEAN : TrainInsert("w1", ok)
    \/ \E ok \in BOOLEAN : TrainingUpdateJob("w1", ok)
    \/ TrainingReturn("w1")
    \/ \E given \in BOOLEAN, outcome \in {"user", "no_user", "raises"} :
            LoginPost(given, outcome)
    \/ LoginReturn

SpecTrainData == TrainDataInit /\ [][TrainDataNext]_vars

\* the prediction endpoints, with a training request at a time
ServeInit ==
    /\ TrainIdle
    /\ WebIdle
    /\ PayloadIdle
    /\ Configured
    /\ upload = IdleUpload
    /\ production_data = <<>>
    /\ weather_data \in WeatherTables
    /\ predictions \in PredictionTables
    /\ predict = IdlePredict
    /\ login = IdleLogin

ServeNext ==
    \/ \E ok \in BOOLEAN : TrainingCreate("w1", "regression", ok)
    \/ \E ok \in BOOLEAN : TrainFit("w1", ok)
    \/ \E ok \in BOOLEAN : TrainDeactivate("w1", ok)
    \/ \E ok \in BOOLEAN : TrainInsert("w1", ok)
    \/ \E ok \in BOOLEAN : TrainingUpdateJob("w1", ok)
    \/ TrainingReturn("w1")
    \/ \E kind \in {"hourly", "daily"}, count \in CountInputs,
          parse_ok \in BOOLEAN, fetch_ok \in BOOLEAN :
            PredictionGet(kind, count, parse_ok, fetch_ok)
    \/ \E row \in 0..Len(model_versions),
          query_ok \in BOOLEAN, file_exists \in BOOLEAN, load_ok \in BOOLEAN :
            PredictorConstruct(row, query_ok, file_exists, load_ok)
    \/ \E matched \in [1..predict.count -> 0..Len(weather_data)] : PredictInfer(matched)
    \/ PredictionReturn

SpecServe == ServeInit /\ [][ServeNext]_vars

(***************************************************************************)
(* Claims about training                                                   *)
(***************************************************************************)
\* the train_model calls of model_type mt that have started and not yet
\* returned or raised, other than worker w's
OtherTrainInFlight(tr, w, mt) ==
    \E w2 \in TrainWorkers \ {w} :
        /\ tr[w2].pc \in {"fit", "deactivate", "insert"}
        /\ tr[w2].model_type = mt

\* C1: whenever a train(model_type) call completes successfully while no other
\* train call of that model_type is in flight, exactly one model_versions row of
\* that model_type is active, and it is the row this call just inserted.
C1_OneActiveAfterTrain ==
    [][\A w \in TrainWorkers :
         (/\ trainer[w].pc = "insert"
          /\ trainer'[w].pc = "update_job"
          /\ ~OtherTrainInFlight(trainer', w, trainer[w].model_type))
         => ActiveRows(model_versions', trainer[w].model_type) = {Len(model_versions')}
      ]_vars

\* C2: in every reachable state at most one model_versions row of a given
\* model_type has is_active = true.
C2_AtMostOneActive ==
    \A mt \in ModelTypes : Cardinality(ActiveRows(model_versions, mt)) <= 1

\* the job rows whose request is still being served
JobsInService ==
    {trainer[w].job : w \in {x \in TrainWorkers :
        trainer[x].pc \in {"fit", "deactivate", "insert", "update_job"}}}

\* C3: a training job is pending only while its request is being served; once
\* the request has produced its response (success or error) the job's status is
\* completed or failed.
C3_JobSettledWhenRequestEnds ==
    \A j \in 1..Len(training_jobs) :
        /\ training_jobs[j].status \in {"pending", "completed", "failed"}
        /\ j \notin JobsInService => training_jobs[j].status \in {"completed", "failed"}

(***************************************************************************)
(* Claims about the forecast cache                                         *)
(***************************************************************************)
\* this step, thread t's request passes validation and looks the cache up
LookupBy(t) == req[t].pc = "idle" /\ req'[t].trace = <<"config", "cache">>

\* this step, thread t's request stores its payload and answers
StoreBy(t) == req[t].pc = "store" /\ req'[t].pc = "responded"

RequestKey(rq) == SolcastCacheKey(rq.lat, rq.lon)

\* C4: with a non-zero TTL, a lookup returns the entry of the rounded key and
\* leaves the cache alone if the entry's expires_at > now; removes the entry and
\* returns none if it is expired; returns none if there is no entry. It never
\* returns an entry with expires_at <= now.
C4_LookupContract ==
    [][\A t \in Threads :
         (LookupBy(t) /\ SOLCAST_CACHE_TTL # 0) =>
            LET k == RequestKey(req'[t])
                res == req'[t].cached
            IN /\ (k \in DOMAIN solcast_cache /\ solcast_cache[k].expires_at > now)
                     => (res = solcast_cache[k] /\ solcast_cache' = solcast_cache)
               /\ (k \in DOMAIN solcast_cache /\ solcast_cache[k].expires_at <= now)
                     => /\ res = None
                        /\ DOMAIN solcast_cache' = DOMAIN solcast_cache \ {k}
                        /\ \A j \in DOMAIN solcast_cache' : solcast_cache'[j] = solcast_cache[j]
               /\ k \notin DOMAIN solcast_cache
                     => (res = None /\ solcast_cache' = solcast_cache)
               /\ res # None => res.expires_at > now
      ]_vars

\* a lookup has found the entry of its key expired, removed it and returned none
C4_Witness ==
    \E t \in Threads :
        /\ SOLCAST_CACHE_TTL # 0
        /\ req[t].pc = "fetch"
        /\ RequestKey(req[t]) \in DOMAIN last_store
        /\ last_store[RequestKey(req[t])].at + SOLCAST_CACHE_TTL <= now
        /\ RequestKey(req[t]) \notin DOMAIN solcast_cache

\* C5: with a non-zero TTL, a store inserts or overwrites the entry of the
\* rounded key, with expires_at = store time + TTL and the payload it was given,
\* and leaves the other entries alone; a lookup of the key made before the TTL of
\* the most recent store has elapsed returns the payload of that store.
C5_StoreThenLookup ==
    [][\A t \in Threads :
         SOLCAST_CACHE_TTL # 0 =>
           /\ StoreBy(t) =>
                LET k == RequestKey(req[t]) IN
                /\ DOMAIN solcast_cache' = DOMAIN solcast_cache \cup {k}
                /\ solcast_cache'[k].expires_at = now + SOLCAST_CACHE_TTL
                /\ heap'[solcast_cache'[k].data] = heap'[req'[t].payload]
                /\ \A j \in DOMAIN solcast_cache \ {k} : solcast_cache'[j] = solcast_cache[j]
           /\ LookupBy(t) =>
                LET k == RequestKey(req'[t]) IN
                (k \in DOMAIN last_store /\ now < last_store[k].at + SOLCAST_CACHE_TTL)
                  => /\ req'[t].cached # None
                     /\ req'[t].cached.expires_at = last_store[k].at + SOLCAST_CACHE_TTL
                     /\ heap[req'[t].cached.data] = last_store[k].payload
                     /\ heap'[req'[t].payload].data = last_store[k].payload.data
      ]_vars

\* two requests of one key have both missed and both stored, the second store
\* over the first; the entry holds the payload of the second
C5_Witness ==
    /\ SOLCAST_CACHE_TTL # 0
    /\ \E t, u \in Threads :
        /\ t # u
        /\ req[t].pc = "responded" /\ req[t].source = "origin"
        /\ req[u].pc = "responded" /\ req[u].source = "origin"
        /\ RequestKey(req[t]) = RequestKey(req[u])
        /\ req[t].lat # req[u].lat
        /\ heap[solcast_cache[RequestKey(req[t])].data].data = heap[req[t].payload].data

\* C6: with a TTL of zero every lookup returns none and every store leaves the
\* cache unchanged, whatever the map holds.
C6_ZeroTtlDisablesCache ==
    [][/\ SOLCAST_CACHE_TTL = 0 =>
            /\ solcast_cache' = solcast_cache
            /\ \A t \in Threads : LookupBy(t) => req'[t].cached = None /\ req'[t].pc = "fetch"
       /\ \A lat \in LatInputs, lon \in LonInputs :
            /\ GetCachedForecast(solcast_cache, lat, lon, now, 0) =
                   [result |-> None, cache |-> solcast_cache]
            /\ StoreForecastInCache(solcast_cache, lat, lon, 1, now, 0) = solcast_cache
      ]_vars

\* with a TTL of zero a request has fetched, stored and answered, and the cache
\* is empty
C6_Witness ==
    /\ SOLCAST_CACHE_TTL = 0
    /\ solcast_cache = <<>>
    /\ \E t \in Threads : req[t].pc = "responded" /\ req[t].source = "origin"

\* |a - b| < 0.00005 degree, half a rounding step
Near(a, b) ==
    LET d == Value(a) - Value(b) IN 2 * (IF d < 0 THEN 0 - d ELSE d) < RoundStep

\* a and b have the same sign and lie within 0.00005 degree of the same
\* multiple g of 0.0001 degree
SameCell(a, b) ==
    /\ a.neg = b.neg
    /\ \E g \in 0..(a.mag \div RoundStep + 1) :
        LET da == a.mag - g * RoundStep
            db == b.mag - g * RoundStep
        IN /\ 2 * (IF da < 0 THEN 0 - da ELSE da) < RoundStep
           /\ 2 * (IF db < 0 THEN 0 - db ELSE db) < RoundStep

\* the unexpired entries, each with the coordinates its payload was stored under
StoredUnder(k) == heap[solcast_cache[k].data].data

\* C7 as claimed: a lookup for coordinates within 0.00005 degree (lat and lon)
\* of the coordinates an unexpired entry was stored under has that entry's key
\* and returns that entry.
C7_NearbyCoordinatesCollide ==
    [][\A t \in Threads :
         (LookupBy(t) /\ SOLCAST_CACHE_TTL # 0) =>
            \A k \in DOMAIN solcast_cache :
                (/\ solcast_cache[k].expires_at > now
                 /\ Near(req'[t].lat, StoredUnder(k).lat)
                 /\ Near(req'[t].lon, StoredUnder(k).lon))
                => (RequestKey(req'[t]) = k /\ req'[t].cached = solcast_cache[k])
      ]_vars

\* C7 as amended: a lookup for coordinates of the same sign as, and within
\* 0.00005 degree of the same multiple of 0.0001 degree as, the coordinates an
\* unexpired entry was stored under (lat and lon) has that entry's key and
\* returns that entry.
C7_SameCellCoordinatesCollide ==
    [][\A t \in Threads :
         (LookupBy(t) /\ SOLCAST_CACHE_TTL # 0) =>
            \A k \in DOMAIN solcast_cache :
                (/\ solcast_cache[k].expires_at > now
                 /\ SameCell(req'[t].lat, StoredUnder(k).lat)
                 /\ SameCell(req'[t].lon, StoredUnder(k).lon))
                => (RequestKey(req'[t]) = k /\ req'[t].cached = solcast_cache[k])
      ]_vars

\* a request has been answered from an entry stored under other coordinates,
\* both lat and lon
C7_Witness ==
    \E t \in Threads :
        /\ req[t].pc = "responded" /\ req[t].source = "cache"
        /\ heap[req[t].payload].data.lat # req[t].lat
        /\ heap[req[t].payload].data.lon # req[t].lon

\* C8: no payload handed to a caller is the object the cache holds, and what the
\* cache holds stays what was stored, whatever the callers do to their payloads.
C8_NoSharedPayload ==
    \A k \in DOMAIN solcast_cache :
        /\ \A t \in Threads : req[t].payload # solcast_cache[k].data
        /\ ~heap[solcast_cache[k].data].mutated
        /\ heap[solcast_cache[k].data] = last_store[k].payload

\* one caller has changed the payload of an origin fetch, another the payload of
\* a cache hit of the same key, and the entry is still in the cache
C8_Witness ==
    \E t, u \in Threads :
        /\ req[t].pc = "responded" /\ req[t].source = "origin"
        /\ req[u].pc = "responded" /\ req[u].source = "cache"
        /\ heap[req[t].payload].mutated
        /\ heap[req[u].payload].mutated
        /\ RequestKey(req[t]) = RequestKey(req[u])
        /\ RequestKey(req[t]) \in DOMAIN solcast_cache

\* C9: within a forecast request the cache is consulted before the provider
\* configuration is checked or the provider is called; a response from the cache
\* made no provider call; a response from the origin follows a cache miss and a
\* provider call of the same request.
C9_CacheConsultedFirst ==
    \A t \in Threads :
        LET tr == req[t].trace IN
        /\ \A i \in 1..Len(tr) :
              tr[i] \in {"config", "provider"} => \E j \in 1..(i - 1) : tr[j] = "cache"
        /\ req[t].source = "cache" => \A i \in 1..Len(tr) : tr[i] # "provider"
        /\ req[t].source = "origin" =>
              /\ req[t].cached = None
              /\ \E i, j \in 1..Len(tr) : i < j /\ tr[i] = "cache" /\ tr[j] = "provider"

(***************************************************************************)
(* Claims about the rate limiter                                           *)
(***************************************************************************)
\* C10: each acquire() returns no earlier than min_interval after the previous
\* one returned and records its return time as the last-call time, so n
\* acquires take at least (n - 1) * min_interval.
C10_AcquireSpacing ==
    /\ acquires.n >= 1 => nominatim_last_call = acquires.last
    /\ acquires.n >= 2 =>
        /\ acquires.last - acquires.prev >= NOMINATIM_RATE_LIMIT_SECONDS
        /\ acquires.last - acquires.first >= (acquires.n - 1) * NOMINATIM_RATE_LIMIT_SECONDS

\* three acquires have returned, the last one after sleeping exactly the rest of
\* the interval
C10_Witness ==
    /\ acquires.n >= 3
    /\ acquires.last - acquires.prev = NOMINATIM_RATE_LIMIT_SECONDS

(***************************************************************************)
(* Claims about the geocoding provider                                     *)
(***************************************************************************)
\* C11: any two successive HTTP calls to the geocoding provider, of whatever
\* requests, start at least the rate limit apart.
C11_HttpCallsSpaced ==
    [][(http_calls'.n > http_calls.n /\ http_calls.n >= 1)
          => http_calls'.last - http_calls.last >= NOMINATIM_RATE_LIMIT_SECONDS
      ]_vars

\* the events of request rq, in order
Events(rq, e) == {i \in 1..Len(rq.trace) : rq.trace[i] = e}

\* C12: every HTTP call to the geocoding provider, of a reverse lookup or of a
\* search, directly follows a rate-limiter acquire of the same request that has
\* returned, one acquire for each call.
C12_HttpAfterOwnAcquire ==
    \A t \in Threads :
        /\ \A i \in Events(req[t], "http") : i > 1 /\ req[t].trace[i - 1] = "acquire"
        /\ req[t].pc = "nominatim_http" =>
              /\ req[t].trace # <<>>
              /\ req[t].trace[Len(req[t].trace)] = "acquire"
        /\ http_calls.n <= acquires.n

\* a search and a forecast have each made their HTTP call
C12_Witness ==
    \E t, u \in Threads :
        /\ req[t].kind = "search" /\ Events(req[t], "http") # {}
        /\ req[u].kind = "forecast" /\ Events(req[u], "http") # {}

\* C15: a failure of the geocoding call never fails the request: reverse gives
\* metadata of nulls and the forecast is still answered 200 with them, search
\* gives the empty list and is answered 200.
C15_GeocodeFailureContained ==
    \A t \in Threads :
        /\ (req[t].kind = "search" /\ req[t].pc = "responded") => req[t].status \in {200, 400}
        /\ Events(req[t], "raise") # {} =>
              /\ (req[t].kind = "search" /\ req[t].pc = "responded")
                    => (req[t].status = 200 /\ req[t].located = "[]")
              /\ (req[t].kind = "forecast" /\ req[t].pc = "store")
                    => req[t].located = "nulls"
              /\ (req[t].kind = "forecast" /\ req[t].pc = "responded")
                    => /\ req[t].status = 200
                       /\ req[t].source = "origin"
                       /\ heap[req[t].payload].data.located = "nulls"
              /\ req[t].pc \in {"responded", "store"}

\* a forecast whose reverse lookup failed has been answered, and a search whose
\* provider call failed has been answered
C15_Witness ==
    \E t, u \in Threads :
        /\ req[t].kind = "forecast" /\ req[t].pc = "responded"
        /\ Events(req[t], "raise") # {}
        /\ heap[req[t].payload].data.located = "nulls"
        /\ req[u].kind = "search" /\ req[u].pc = "responded"
        /\ Events(req[u], "raise") # {} /\ Events(req[u], "http") # {}

\* the length of q without its leading and trailing spaces
CoreLen(q) ==
    LET inked == {i \in 1..Len(q) : q[i] # " "} IN
    IF inked = {} THEN 0
    ELSE (CHOOSE i \in inked : \A j \in inked : j <= i)
         - (CHOOSE i \in inked : \A j \in inked : i <= j) + 1

\* C16 as claimed: a search whose q has length 2 or less is answered 400 with no
\* acquire and no provider call; a search whose q has length 3 or more is not
\* answered before it has called the provider.
C16_QueryLengthDecides ==
    \A t \in Threads :
        req[t].kind = "search" =>
            /\ Len(req[t].query) <= 2 =>
                  (req[t].pc = "responded" /\ req[t].status = 400 /\ req[t].trace = <<>>)
            /\ (Len(req[t].query) >= 3 /\ req[t].pc = "responded") =>
                  Events(req[t], "http") # {}

\* C16 as amended: the length is that of q without surrounding whitespace; a
\* search of 3 or more such characters is never answered 400, and where the
\* geocoding endpoint is configured it is not answered before one acquire and
\* one provider call; where it is not, it is answered 200 with the empty list.
C16_StrippedLengthDecides ==
    \A t \in Threads :
        req[t].kind = "search" =>
            /\ CoreLen(req[t].query) <= 2 =>
                  (req[t].pc = "responded" /\ req[t].status = 400 /\ req[t].trace = <<>>)
            /\ CoreLen(req[t].query) >= 3 =>
                  /\ req[t].status # 400
                  /\ req[t].pc = "responded" =>
                        IF nominatim_configured
                        THEN /\ SubSeq(req[t].trace, 1, 2) = <<"acquire", "http">>
                             /\ Cardinality(Events(req[t], "http")) = 1
                        ELSE /\ req[t].trace = <<"raise">>
                             /\ req[t].status = 200 /\ req[t].located = "[]"

\* a search of three characters with a leading space has been rejected while a
\* search of three characters proper has called the provider
C16_Witness ==
    \E t, u \in Threads :
        /\ req[t].kind = "search" /\ req[t].query = <<" ", "a", "b">>
        /\ req[t].pc = "responded" /\ req[t].status = 400
        /\ req[u].kind = "search" /\ req[u].query = <<"a", "b", "c">>
        /\ req[u].pc = "responded" /\ Events(req[u], "http") # {}

(***************************************************************************)
(* Claims about the errors of the forecast endpoint                        *)
(***************************************************************************)
\* this step, thread t takes a forecast request
TakenBy(t) == req[t].pc = "idle" /\ req'[t].kind = "forecast"

\* -90 <= x <= 90 and -180 <= x <= 180 on the signed values
WithinLat(x) == 0 - 90 * UnitsPerDegree <= Value(x) /\ Value(x) <= 90 * UnitsPerDegree

WithinLon(x) == 0 - 180 * UnitsPerDegree <= Value(x) /\ Value(x) <= 180 * UnitsPerDegree

\* C13: a forecast request with lat outside [-90, 90] or lon outside
\* [-180, 180] is answered 400 at once, with no cache lookup, no cache write and
\* no provider call; lat = +-90 and lon = +-180 are not rejected for their range.
C13_RangeValidation ==
    [][\A t \in Threads :
         TakenBy(t) =>
            /\ (~WithinLat(req'[t].lat) \/ ~WithinLon(req'[t].lon)) =>
                  /\ req'[t].pc = "responded" /\ req'[t].status = 400
                  /\ req'[t].trace = <<>>
                  /\ solcast_cache' = solcast_cache
                  /\ last_store' = last_store
            /\ (/\ WithinLat(req'[t].lat) /\ WithinLon(req'[t].lon)
                /\ \/ req'[t].lat.mag = 90 * UnitsPerDegree
                   \/ req'[t].lon.mag = 180 * UnitsPerDegree) =>
                  req'[t].status # 400
      ]_vars

\* a request for lat = 90.00002 has been rejected while the cache holds a
\* forecast stored for lat = -90, lon = 180
C13_Witness ==
    \E t \in Threads :
        /\ req[t].pc = "responded" /\ req[t].status = 400
        /\ req[t].lat = Float(FALSE, 90 * UnitsPerDegree + 1)
        /\ \E k \in DOMAIN solcast_cache :
              /\ StoredUnder(k).lat = Float(TRUE, 90 * UnitsPerDegree)
              /\ StoredUnder(k).lon = Float(FALSE, 180 * UnitsPerDegree)

\* C14: a forecast request whose provider call ends in a non-2xx response, a
\* network failure or a response without forecast entries is answered 502; one
\* that finds the provider endpoint or key missing is answered 500; none of
\* these is answered with a 2xx status.
C14_UpstreamErrorStatus ==
    \A t \in Threads :
        (req[t].kind = "forecast" /\ req[t].pc = "responded") =>
            /\ req[t].upstream \in {"http_error", "other_status", "network",
                                     "empty", "not_object"}
                  => req[t].status = 502
            /\ (req[t].trace # <<>> /\ (~env_api_key \/ ~solcast_configured))
                  => req[t].status = 500

(***************************************************************************)
(* Claims about the forecast payload                                       *)
(***************************************************************************)
\* C17: whatever the provider's forecasts list, hourly_forecast has at most 48
\* entries and daily_summary at most 7, their dates distinct and ascending.
C17_PayloadSizes ==
    built.pc = "done" =>
        /\ Len(built.hourly_forecast) <= 48
        /\ Len(built.daily_summary) <= 7
        /\ \A i, j \in 1..Len(built.daily_summary) :
              i < j => built.daily_summary[i].date < built.daily_summary[j].date

\* a response of more than 48 entries over more than 7 days, given in
\* descending order, has been cut to 48 and 7
C17_Witness ==
    /\ built.pc = "done"
    /\ Len(provider_forecasts) > 48
    /\ \A i \in 1..Len(provider_forecasts) : provider_forecasts[i].period_end # <<>>
    /\ Cardinality({provider_forecasts[i].period_end[1] :
                       i \in 1..Len(provider_forecasts)}) > 7
    /\ provider_forecasts[1].period_end[1] > provider_forecasts[2].period_end[1]
    /\ Len(built.hourly_forecast) = 48
    /\ Len(built.daily_summary) = 7

(***************************************************************************)
(* Claims about the uploads                                                *)
(***************************************************************************)
\* this step, an upload request is served
UploadServed == upload.pc = "idle" /\ upload'.pc = "responded"

\* file has a timestamp column and a row whose timestamp does not parse
HasBadTimestamp(file) ==
    /\ file.present /\ file.readable /\ "timestamp" \in file.columns
    /\ \E i \in 1..Len(file.rows) : ToDatetime(file.rows[i]["timestamp"]) = NaT

\* file can be read, has the columns named and rows, and every timestamp parses
WellTimed(file, required) ==
    /\ file.present /\ file.readable /\ required \subseteq file.columns
    /\ Len(file.rows) > 0
    /\ \A i \in 1..Len(file.rows) : ToDatetime(file.rows[i]["timestamp"]) # NaT

\* C18: a weather or production upload with a row whose timestamp does not
\* parse fails, returns no records and inserts nothing; an upload inserts all
\* the rows of its file or none.
C18_TimestampsAllOrNothing ==
    [][UploadServed =>
         /\ HasBadTimestamp(upload'.file) =>
               /\ upload'.status = 400
               /\ upload'.records = <<>>
               /\ upload'.count = 0
               /\ weather_data' = weather_data
               /\ production_data' = production_data
         /\ Len(weather_data') - Len(weather_data) \in {0, Len(upload'.file.rows)}
         /\ Len(production_data') - Len(production_data) \in {0, Len(upload'.file.rows)}
      ]_vars

\* a weather file whose second row alone has an unparseable timestamp was
\* refused, and the table holds what it held
C18_Witness ==
    /\ upload.pc = "responded" /\ upload.kind = "weather"
    /\ Len(upload.file.rows) = 2
    /\ "timestamp" \in upload.file.columns
    /\ ToDatetime(upload.file.rows[1]["timestamp"]) # NaT
    /\ ToDatetime(upload.file.rows[2]["timestamp"]) = NaT
    /\ upload.status = 400
    /\ weather_data = <<EarlierWeatherRow>>

\* C19: every weather record has a numeric value for each of the six numeric
\* columns, 0 where the cell is absent or does not parse, and a non-numeric
\* cell does not fail an upload whose timestamps are valid.
C19_NumericFieldsNeverNull ==
    /\ \A i \in 1..Len(weather_data) : \A c \in NumericCols :
          /\ c \in DOMAIN weather_data[i]
          /\ weather_data[i][c] \in NumericCells \cup {"0"}
    /\ (upload.pc = "responded" /\ upload.kind = "weather") =>
          /\ \A i \in 1..Len(upload.records) : \A c \in NumericCols :
                /\ c \in DOMAIN upload.records[i]
                /\ upload.records[i][c] \in NumericCells \cup {"0"}
          /\ WellTimed(upload.file, {"timestamp"}) =>
                Len(upload.records) = Len(upload.file.rows)

LiveAnswered == predict.pc = "responded" /\ predict.invoked

\* C21: constructing the Prediction Service never fails: without an active
\* regression row, without its file or when loading raises, model_loaded is
\* false, and predict_hourly / predict_daily still return one record per offset
\* asked for, each max(0, solar_irradiance * 0.5) (times 24 for daily) with
\* confidence 0.5; also for a service constructed between a trainer's
\* deactivate step and its insert step.
C21_HeuristicAlwaysServes ==
    /\ (predict.invoked /\ predict.no_model # "") => ~predict.model_loaded
    /\ (LiveAnswered /\ ~predict.model_loaded) =>
          /\ predict.status = 200
          /\ Len(predict.records) = predict.count
          /\ \A i \in 1..Len(predict.records) :
                LET r == predict.records[i] IN
                /\ r.confidence_score = CONFIDENCE_HEURISTIC
                /\ r.predicted_output_kwh =
                      (IF r.solar_irradiance * 5 > 0 THEN r.solar_irradiance * 5 ELSE 0)
                          * (IF predict.kind = "daily" THEN HOURS_PER_DAY ELSE 1)

\* the stored rows of the type the request asks for
StoredOfKind == {predictions[i] : i \in Matching(predictions, predict.kind)}

\* the response is made of stored rows only, the earliest first
OnlyStoredAscending(records) ==
    /\ \A i \in 1..Len(records) : records[i] \in StoredOfKind
    /\ \A i, j \in 1..Len(records) : i < j => records[i].timestamp < records[j].timestamp

\* the response is made of records of the Prediction Service only
OnlyLive(records) ==
    \A i \in 1..Len(records) : "prediction_type" \notin DOMAIN records[i]

\* C22 as claimed: if storage holds a prediction row of the type asked for, the
\* response consists of stored rows only, in ascending timestamp order, and the
\* Prediction Service is not invoked; only without such a row is the response
\* produced by live inference; no response mixes the two.
C22_StoredRowsPreferred ==
    /\ StoredOfKind # {} => ~predict.invoked
    /\ (predict.pc = "responded" /\ predict.status = 200) =>
          IF StoredOfKind # {}
          THEN predict.records # <<>> /\ OnlyStoredAscending(predict.records)
          ELSE predict.invoked /\ OnlyLive(predict.records)

\* C22: for a count of at least 1: a successful response consists of stored
\* rows only, in ascending timestamp order, without the Prediction Service being
\* invoked, if storage holds a row of the type asked for; it is produced by
\* live inference only if storage holds no such row. With a count of 0 the
\* service is invoked whatever is stored. No response mixes the two.
C22_StoredRowsPreferredForPositiveCount ==
    /\ (StoredOfKind # {} /\ predict.count >= 1) => ~predict.invoked
    /\ (predict.pc \in {"construct", "infer"} \/ predict.invoked) =>
          (StoredOfKind = {} \/ predict.count = 0)
    /\ (predict.pc = "responded" /\ predict.status = 200) =>
          IF predict.invoked
          THEN OnlyLive(predict.records)
          ELSE /\ predict.records # <<>>
               /\ Len(predict.records) <= predict.count
               /\ OnlyStoredAscending(predict.records)

\* two stored rows have been answered while a third, earlier one was left out
C22_Witness ==
    /\ predict.pc = "responded"
    /\ predict.status = 200
    /\ ~predict.invoked
    /\ Len(predict.records) = 2
    /\ Cardinality(StoredOfKind) = 3

(***************************************************************************)
(* Claims about the error responses and the training data                  *)
(***************************************************************************)
\* the body carries both keys of the error envelope
ErrorEnvelope(keys) == {"error", "details"} \subseteq keys

\* C23: every error response of every endpoint is a JSON object with both an
\* error key and a details key, whatever the origin of the failure.
C23_ErrorEnvelope ==
    /\ login.status >= 400 => ErrorEnvelope(login.keys)
    /\ predict.status >= 400 => ErrorEnvelope(predict.keys)
    /\ \A w \in TrainWorkers : trainer[w].status >= 400 => ErrorEnvelope(trainer[w].keys)

\* there is nothing to train on: a table is empty, or no weather row shares
\* its hour with a production row
MissingData ==
    \/ weather_data = <<>>
    \/ production_data = <<>>
    \/ \A i \in 1..Len(weather_data), j \in 1..Len(production_data) :
          FloorHour[weather_data[i]["timestamp"]]
              # FloorHour[production_data[j]["timestamp"]]

C30_FailedTrainKeepsActiveModel ==
    [][\A w \in TrainWorkers :
         (/\ trainer[w].pc \in {"fit", "deactivate", "insert"}
          /\ trainer'[w].pc = "responded"
          /\ trainer'[w].status = 500) =>
            \A i \in trainer[w].deactivated : model_versions'[i].is_active
      ]_vars

(***************************************************************************)
(* Claims about what changes the cache                                     *)
(***************************************************************************)
\* the step creates or overwrites the entry of key k
Written(k) ==
    /\ k \in DOMAIN solcast_cache'
    /\ k \notin DOMAIN solcast_cache \/ solcast_cache'[k] # solcast_cache[k]

\* the step is the store of a forecast request that missed the cache and whose
\* provider fetch returned forecasts, for key k
StoreAfterFetch(k) ==
    \E t \in Threads :
        /\ req[t].pc = "store"
        /\ req'[t].pc = "responded"
        /\ req'[t].status = 200
        /\ req[t].cached = None
        /\ req[t].upstream \in {"ok", "other_status"}
        /\ RequestKey(req[t]) = k

\* the step is the lookup of a forecast request for key k, and the entry of k
\* has expired
LookupOfExpired(k) ==
    /\ solcast_cache[k].expires_at <= now
    /\ \E t \in Threads :
          /\ req[t].pc = "idle"
          /\ req'[t].kind = "forecast"
          /\ RequestKey(req'[t]) = k

\* entries are written by stores after a fetch and removed by lookups that find
\* them expired, and by nothing else
WrittenAndRemovedAsClaimed ==
    /\ \A k \in DOMAIN solcast_cache' : Written(k) => StoreAfterFetch(k)
    /\ \A k \in DOMAIN solcast_cache : k \notin DOMAIN solcast_cache' => LookupOfExpired(k)

Annotated(t) == heap[req[t].payload].cache_expires_at

\* both requests have been answered from the origin, for one cache key
BothFromOrigin(t, u) ==
    /\ t # u
    /\ req[t].pc = "responded" /\ req[t].source = "origin"
    /\ req[u].pc = "responded" /\ req[u].source = "origin"
    /\ RequestKey(req[t]) = RequestKey(req[u])

\* C27: the check / fetch-on-miss / store sequence is not single-flight: two
\* concurrent forecast requests of one rounded key can both miss, both call the
\* provider and both write the cache, and the entry left is the one written
\* last.
C27_RacingStoresLastWins ==
    \A t, u \in Threads :
        (BothFromOrigin(t, u) /\ Annotated(t) <= Annotated(u)) =>
            LET k == RequestKey(req[u]) IN
            /\ k \in DOMAIN solcast_cache
            /\ solcast_cache[k].expires_at = Annotated(u)
            /\ \E w \in {t, u} :
                  /\ Annotated(w) = Annotated(u)
                  /\ heap[solcast_cache[k].data].data = heap[req[w].payload].data

\* two requests of one key have both fetched and stored, the second store less
\* than a TTL after the first: the second missed before the first had stored
C27_Witness ==
    \E t, u \in Threads :
        /\ BothFromOrigin(t, u)
        /\ req[t].lat # req[u].lat
        /\ Annotated(t) < Annotated(u)
        /\ Annotated(u) < Annotated(t) + SOLCAST_CACHE_TTL
        /\ "provider" \in {req[t].trace[i] : i \in 1..Len(req[t].trace)}
        /\ "provider" \in {req[u].trace[i] : i \in 1..Len(req[u].trace)}
        /\ heap[solcast_cache[RequestKey(req[u])].data].data = heap[req[u].payload].data

(***************************************************************************)
(* Claims about the locks                                                  *)
(***************************************************************************)
\* thread t's request is in an HTTP call to the forecast provider or to the
\* geocoding provider
HttpInFlight(t) == req[t].pc \in {"fetch", "nominatim_http"}

\* C26: no request holds the cache lock or the rate-limiter lock while an HTTP
\* call to the forecast provider or the geocoding provider is in flight: the
\* cache lock is held only during a map read or write, the rate-limiter lock
\* only during the sleep and the update of the timestamp.
C26_NoLockAcrossHttp ==
    \A t \in Threads :
        /\ HttpInFlight(t) => solcast_cache_lock # t /\ nominatim_lock # t
        /\ solcast_cache_lock = t =>
              req[t].pc \in {"get_read", "get_test", "get_pop", "store_write"}
        /\ nominatim_lock = t => req[t].pc = "rate_limit"

\* one request is in its HTTP call to the geocoding provider while the other
\* sleeps in the limiter with the lock
C26_Witness ==
    \E t, u \in Threads :
        /\ t # u
        /\ req[t].pc = "nominatim_http"
        /\ nominatim_lock = u
        /\ now < req[u].wake_at

\* the entry the cache holds under the key of thread t's request, if any
EntryOf(cache, t) ==
    IF RequestKey(req[t]) \in DOMAIN cache THEN cache[RequestKey(req[t])] ELSE None

\* C28: the eviction by a lookup that found an expired entry never removes an
\* unexpired entry written by a concurrent store: the read, the expiry test and
\* the removal of one lookup are one atomic step under the cache lock, so from
\* the read to the removal the lookup holds the lock and the key's entry is the
\* one it read, and every entry removed is expired.
C28_EvictionRemovesOnlyExpired ==
    [][/\ \A k \in DOMAIN solcast_cache :
             k \notin DOMAIN solcast_cache' => solcast_cache[k].expires_at <= now
       /\ \A t \in Threads :
             req'[t].pc \in {"get_test", "get_pop"} =>
                /\ solcast_cache_lock' = t
                /\ req'[t].cached = EntryOf(solcast_cache', t)
      ]_vars

\* a lookup is about to remove the expired entry it read while the other
\* request, which has fetched, waits for the lock to store
C28_Witness ==
    \E t, u \in Threads :
        /\ req[t].pc = "get_pop"
        /\ solcast_cache_lock = t
        /\ req[u].pc = "store"
        /\ RequestKey(req[t]) = RequestKey(req[u])

\* thread t is in a lookup, in a store or in the limiter, or holds a lock
InLockedSection(t) ==
    \/ req[t].pc \in {"get_lock", "get_read", "get_test", "get_pop", "nominatim",
                      "rate_limit", "store", "store_write"}
    \/ solcast_cache_lock = t
    \/ nominatim_lock = t

\* C29: the two locks cannot deadlock: no request ever holds the cache lock
\* and the rate-limiter lock at the same time, and under fair scheduling every
\* limiter acquire and every cache lookup or store a request has started
\* returns and releases its lock.
C29_NoDeadlock ==
    /\ [](\A t \in Threads : ~(solcast_cache_lock = t /\ nominatim_lock = t))
    /\ \A t \in Threads : InLockedSection(t) ~> ~InLockedSection(t)

\* one request waits for the limiter lock while the other sleeps with it
C29_Witness ==
    \E t, u \in Threads :
        /\ t # u
        /\ req[t].pc = "nominatim"
        /\ nominatim_lock = u
        /\ now < req[u].wake_at
=============================================================================
